---- MODULE Spec2Model ----
(***************************************************************************)
(* Conversation memory, context assembly and turn execution of the hikma   *)
(* terminal chat client: MemoryManager / SqliteMemoryManager (store and    *)
(* retention policy), ContextManager (context sets), ToolManager (tool    *)
(* dispatch) and ChatSession (per-turn orchestration), driven the way the  *)
(* command loop of startChat drives them: one command at a time.           *)
(*                                                                         *)
(* Text is modelled as a sequence of pieces.  Prompts and tool keywords    *)
(* carry one character per piece, so that substring search and keyword     *)
(* length are computed as the code computes them; fixed markers and        *)
(* external texts (file contents, model replies) are single pieces.        *)
(***************************************************************************)
EXTENDS Integers, Sequences, FiniteSets, TLC

\* ---------------------------------------------------------------- bounds
MaxConversations == 2   \* conversation ids ever generated
MaxAppends == 3         \* message ids ever generated
MaxClock == 1           \* distinct later readings of the millisecond clock
MaxRestarts == 1        \* close + start of a new process on the same database
MaxLimit == 2           \* largest value of options.maxMessages explored
MaxHooks == 1           \* hooks ever added to one conversation
SmallSummarizeThreshold == 1    \* a summarizeThreshold that the bounded appends can cross
MaxBatch == 2           \* paths in one addFiles / removeFiles call
MaxTextLen == 9         \* longest text given to estimateTokenCount

\* ------------------------------------------------------------ null values
Null == 0                       \* null conversation id (ids start at 1)
NoSummary == "null"            \* conversation.summary = null
NullMessage == [id |-> Null, role |-> "null", content |-> <<>>, timestamp |-> 0]

\* ------------------------------------------------------------------ texts
Prompts == { <<"h","i">>, <<"l","s">> }     \* user inputs typed at the prompt
DefaultSystemPrompt == <<"You are a helpful assistant. Respond concisely and accurately.">>
NewSystemPrompts == { <<"Be brief.">> }     \* arguments of /system
ModelReplies == { <<"reply">> }
ToolOutputs == { <<"stdout">> }
Files == { "/w/a.js" }                      \* absolute paths that pass validation
FileText == <<"file text">>
HookNames == { "clock" }
HookBehaviours == { "text", "nothing", "throws" }
HookText == <<"hook text">>
DefaultMetadata == [title |-> "New Conversation", model |-> "llama3"]

\* ------------------------------------------------------------- sequences
Last(s) == s[Len(s)]

Range(s) == { s[i] : i \in DOMAIN s }

LastN(s, n) == IF Len(s) <= n THEN s ELSE SubSeq(s, Len(s) - n + 1, Len(s))

RECURSIVE Concat(_)
Concat(ss) == IF ss = <<>> THEN <<>> ELSE Head(ss) \o Concat(Tail(ss))

\* ------------------------------------------------------------ ToolManager
UpperCase ==
  [c \in {"A","B","C","D","E","F","G","H","I","J","K","L","M",
          "N","O","P","Q","R","S","T","U","V","W","X","Y","Z"} |->
     CASE c = "A" -> "a" [] c = "B" -> "b" [] c = "C" -> "c" [] c = "D" -> "d"
       [] c = "E" -> "e" [] c = "F" -> "f" [] c = "G" -> "g" [] c = "H" -> "h"
       [] c = "I" -> "i" [] c = "J" -> "j" [] c = "K" -> "k" [] c = "L" -> "l"
       [] c = "M" -> "m" [] c = "N" -> "n" [] c = "O" -> "o" [] c = "P" -> "p"
       [] c = "Q" -> "q" [] c = "R" -> "r" [] c = "S" -> "s" [] c = "T" -> "t"
       [] c = "U" -> "u" [] c = "V" -> "v" [] c = "W" -> "w" [] c = "X" -> "x"
       [] c = "Y" -> "y" [] c = "Z" -> "z"]

toLowerCase(text) ==
  [i \in DOMAIN text |->
     IF text[i] \in DOMAIN UpperCase THEN UpperCase[text[i]] ELSE text[i]]

\* String.prototype.includes: needle occurs as a contiguous run of text
includes(text, needle) ==
  \E i \in 0..(Len(text) - Len(needle)) :
     \A k \in 1..Len(needle) : text[i + k] = needle[k]

\* registerDefaultTools: the registry after construction, in registration order
DefaultTools ==
  <<
     [name |-> "git_pull_request",
      handler |-> "handleGitPullRequest",
      keywords |-> <<
        <<"p","u","l","l"," ","r","e","q","u","e","s","t">>,
        <<"p","r">>,
        <<"g","i","t","h","u","b"," ","p","r">>,
        <<"c","h","e","c","k"," ","p","r">>,
        <<"s","h","o","w"," ","p","r">>>>],
     [name |-> "git_diff",
      handler |-> "handleGitDiff",
      keywords |-> <<
        <<"d","i","f","f">>,
        <<"c","h","a","n","g","e","s">>,
        <<"g","i","t"," ","d","i","f","f">>,
        <<"c","h","e","c","k"," ","c","h","a","n","g","e","s">>,
        <<"s","h","o","w"," ","c","h","a","n","g","e","s">>,
        <<"w","h","a","t"," ","c","h","a","n","g","e","d">>,
        <<"c","h","a","n","g","e","s"," ","m","a","d","e">>,
        <<"m","o","d","i","f","i","c","a","t","i","o","n","s">>,
        <<"g","i","t"," ","s","t","a","t","u","s"," ","c","h","a","n","g","e","s">>,
        <<"w","o","r","k","i","n","g"," ","d","i","r","e","c","t","o","r","y"," ","c","h","a","n","g","e","s">>>>],
     [name |-> "git_status",
      handler |-> "handleGitStatus",
      keywords |-> <<
        <<"g","i","t"," ","s","t","a","t","u","s">>,
        <<"s","t","a","t","u","s">>,
        <<"r","e","p","o","s","i","t","o","r","y"," ","s","t","a","t","u","s">>,
        <<"r","e","p","o"," ","s","t","a","t","u","s">>,
        <<"w","o","r","k","i","n","g"," ","t","r","e","e"," ","s","t","a","t","u","s">>>>],
     [name |-> "list_directory",
      handler |-> "handleListDirectory",
      keywords |-> <<
        <<"l","i","s","t"," ","f","i","l","e","s">>,
        <<"l","s">>,
        <<"s","h","o","w"," ","f","i","l","e","s">>,
        <<"d","i","r","e","c","t","o","r","y"," ","c","o","n","t","e","n","t","s">>,
        <<"c","u","r","r","e","n","t"," ","d","i","r","e","c","t","o","r","y">>,
        <<"l","i","s","t"," ","d","i","r","e","c","t","o","r","y">>>>],
     [name |-> "read_file",
      handler |-> "handleReadFile",
      keywords |-> <<
        <<"r","e","a","d"," ","f","i","l","e">>,
        <<"s","h","o","w"," ","f","i","l","e">>,
        <<"c","a","t"," ","f","i","l","e">>,
        <<"d","i","s","p","l","a","y"," ","f","i","l","e">>,
        <<"v","i","e","w"," ","f","i","l","e">>>>],
     [name |-> "execute_command",
      handler |-> "handleExecuteCommand",
      keywords |-> <<
        <<"r","u","n"," ","c","o","m","m","a","n","d">>,
        <<"e","x","e","c","u","t","e">>,
        <<"s","h","e","l","l"," ","c","o","m","m","a","n","d">>,
        <<"b","a","s","h"," ","c","o","m","m","a","n","d">>,
        <<"t","e","r","m","i","n","a","l"," ","c","o","m","m","a","n","d">>>>]
  >>

\* keywords of a tool that occur in the prompt, in keyword order
matchedKeywords(tool, normalizedPrompt) ==
  SelectSeq(tool.keywords,
            LAMBDA keyword : includes(normalizedPrompt, toLowerCase(keyword)))

RECURSIVE SumLen(_)
SumLen(keywords) ==
  IF keywords = <<>> THEN 0 ELSE Len(Head(keywords)) + SumLen(Tail(keywords))

\* the score with the bonus given to a single matched keyword as well
toolScore_bonusAlways(tool, normalizedPrompt) ==
  LET matched == matchedKeywords(tool, normalizedPrompt)
  IN  SumLen(matched) + (IF Len(matched) > 0 THEN Len(matched) * 5 ELSE 0)

toolScore(tool, normalizedPrompt) ==
  LET matched == matchedKeywords(tool, normalizedPrompt)
  IN  SumLen(matched) + (IF Len(matched) > 1 THEN Len(matched) * 5 ELSE 0)

\* the loop of findMatchingTool over tools 1..n: <<bestScore, index of bestMatch>>
RECURSIVE bestMatch(_, _, _)
bestMatch(tools, normalizedPrompt, n) ==
  IF n = 0 THEN <<0, 0>>
  ELSE LET prev == bestMatch(tools, normalizedPrompt, n - 1)
           score == toolScore(tools[n], normalizedPrompt)
       IN  IF score > prev[1] THEN <<score, n>> ELSE prev

\* name of the matched tool, or "" for null
findMatchingTool(prompt) ==
  LET best == bestMatch(DefaultTools, toLowerCase(prompt), Len(DefaultTools))
  IN  IF best[1] > 0 THEN DefaultTools[best[2]].name ELSE ""

\* ------------------------------------------------------------------ state
VARIABLES
  maxMessages,            \* options.maxMessages of the MemoryManager
  persistMemory,          \* options.persistMemory: SqliteMemoryManager is used
  includeSystemPrompt,    \* settings.includeSystemPrompt
  systemPrompt,           \* settings.systemPrompt
  conversations,          \* MemoryManager.conversations: id -> conversation
  activeConversationId,   \* MemoryManager.activeConversationId
  memoryInitialized,      \* SqliteMemoryManager.initialized
  dbConversations,        \* table conversations: id -> row
  dbMessages,             \* table messages: rows in rowid order
  sessionActiveConversationId,  \* ChatSession.activeConversationId
  initialized,            \* ChatSession.initialized
  contextFiles,           \* ContextManager.contextFiles: id -> paths in insertion order
  contextHooks,           \* ContextManager.contextHooks: id -> hooks in insertion order
  pc,                     \* where the command loop is: "idle", "tool" or "model"
  turn,                   \* the sendMessage call in progress, or the last one finished
  now,                    \* reading of the millisecond clock
  nextConvId,             \* next fresh conversation id (nanoid)
  nextMsgId,              \* next fresh message id (nanoid)
  restarts,               \* restarts so far
  appendLog,              \* history: id -> messages appended by addMessage, in call order
  edited,                 \* history: ids whose live sequence was changed other than by addMessage
  deletions,              \* history: deleted id -> what held when deleteConversation was called
  summarizeThreshold,     \* options.summarizeThreshold of the MemoryManager
  summarizeLog,           \* history: calls of summarizeConversation, with the live sequence it saw
  registeredTools,        \* ToolManager.tools, in Map order
  call                    \* the last call made on the store or the dispatcher, with what it returned

vars ==
  <<maxMessages, persistMemory, includeSystemPrompt, systemPrompt, conversations,
    activeConversationId, memoryInitialized, dbConversations, dbMessages,
    sessionActiveConversationId, initialized, contextFiles, contextHooks, pc, turn,
    now, nextConvId, nextMsgId, restarts, appendLog, edited, deletions,
    summarizeThreshold, summarizeLog, registeredTools, call>>

Empty == [x \in {} |-> Null]

DefaultSummarizeThreshold == 50       \* options.summarizeThreshold when none is given

NoCall == [op |-> "none"]

\* the store as one value, threaded through the calls one handler makes
Memory ==
  [conversations |-> conversations,
   activeConversationId |-> activeConversationId,
   initialized |-> memoryInitialized,
   dbConversations |-> dbConversations,
   dbMessages |-> dbMessages,
   nextConvId |-> nextConvId,
   nextMsgId |-> nextMsgId,
   appendLog |-> appendLog,
   summarizeLog |-> summarizeLog,
   ret |-> Null]

SetMemory(M) ==
  /\ conversations' = M.conversations
  /\ activeConversationId' = M.activeConversationId
  /\ memoryInitialized' = M.initialized
  /\ dbConversations' = M.dbConversations
  /\ dbMessages' = M.dbMessages
  /\ nextConvId' = M.nextConvId
  /\ nextMsgId' = M.nextMsgId
  /\ appendLog' = M.appendLog
  /\ summarizeLog' = M.summarizeLog

\* ------------------------------------------------------------------- JSON
MetadataKeys == <<"created", "lastUpdated", "messageCount", "title", "model">>

\* JSON.stringify of a metadata object: its own keys, each with its value
JSONstringify(obj) ==
  LET keys == SelectSeq(MetadataKeys, LAMBDA k : k \in DOMAIN obj)
  IN  [i \in DOMAIN keys |-> <<keys[i], obj[keys[i]]>>]

JSONparse(text) ==
  [k \in { text[i][1] : i \in DOMAIN text } |->
     text[CHOOSE i \in DOMAIN text : text[i][1] = k][2]]

\* ---------------------------------------------------------- MemoryManager
MemoryManager_createConversation(M, metadata) ==
  LET id == M.nextConvId
      conversation ==
        [id |-> id,
         messages |-> <<>>,
         metadata |-> metadata @@ [created |-> now, lastUpdated |-> now, messageCount |-> 0],
         summary |-> NoSummary]
  IN  [M EXCEPT !.conversations = (id :> conversation) @@ @,
                !.activeConversationId = id,
                !.nextConvId = @ + 1,
                !.appendLog = (id :> <<>>) @@ @,
                !.ret = id]

\* setActiveConversation without the existence test
setActiveConversation_unchecked(M, conversationId) ==
  [M EXCEPT !.activeConversationId = conversationId, !.ret = TRUE]

setActiveConversation(M, conversationId) ==
  IF conversationId \notin DOMAIN M.conversations
  THEN [M EXCEPT !.ret = FALSE]
  ELSE [M EXCEPT !.activeConversationId = conversationId, !.ret = TRUE]

\* summarizeConversation: the base implementation logs the request and
\* changes nothing in the store
summarizeConversation(M, conversationId) ==
  [M EXCEPT !.summarizeLog =
              Append(@, [conversationId |-> conversationId,
                         live |-> M.conversations[conversationId].messages])]

\* evict with the limit applied to the length before the push
evict_beforePush(messages) ==
  IF maxMessages > 0 /\ Len(messages) - 1 > maxMessages
  THEN SubSeq(messages, Len(messages) - maxMessages, Len(messages))
  ELSE messages

\* evict dropping the newest messages instead of the oldest
evict_keepOldest(messages) ==
  IF maxMessages > 0 /\ Len(messages) > maxMessages
  THEN SubSeq(messages, 1, maxMessages)
  ELSE messages

\* the retention step of addMessage: drop the oldest messages beyond maxMessages
evict(messages) ==
  IF maxMessages > 0 /\ Len(messages) > maxMessages
  THEN LET excessCount == Len(messages) - maxMessages
       IN  SubSeq(messages, excessCount + 1, Len(messages))
  ELSE messages

\* addMessage with the retention step ahead of the summarize check
MemoryManager_addMessage_evictFirst(M, role, content, conversationId) ==
  LET targetId == IF conversationId # Null THEN conversationId ELSE M.activeConversationId
  IN  IF targetId = Null \/ targetId \notin DOMAIN M.conversations
      THEN [M EXCEPT !.ret = NullMessage]
      ELSE LET conversation == M.conversations[targetId]
               message == [id |-> M.nextMsgId, role |-> role, content |-> content,
                           timestamp |-> now]
               pushed == Append(conversation.messages, message)
               M1 == [M EXCEPT !.conversations[targetId].messages = evict(pushed),
                               !.conversations[targetId].metadata.messageCount = @ + 1,
                               !.conversations[targetId].metadata.lastUpdated = now,
                               !.nextMsgId = @ + 1,
                               !.appendLog[targetId] = Append(@, message)]
               M2 == IF Len(evict(pushed)) > summarizeThreshold
                     THEN summarizeConversation(M1, targetId)
                     ELSE M1
           IN  [M2 EXCEPT !.ret = message]

\* addMessage whose retention step discards the summary with the old messages
MemoryManager_addMessage_dropsSummary(M, role, content, conversationId) ==
  LET targetId == IF conversationId # Null THEN conversationId ELSE M.activeConversationId
  IN  IF targetId = Null \/ targetId \notin DOMAIN M.conversations
      THEN [M EXCEPT !.ret = NullMessage]
      ELSE LET conversation == M.conversations[targetId]
               message == [id |-> M.nextMsgId, role |-> role, content |-> content,
                           timestamp |-> now]
               pushed == Append(conversation.messages, message)
               M1 == [M EXCEPT !.conversations[targetId].messages = pushed,
                               !.conversations[targetId].metadata.messageCount = @ + 1,
                               !.conversations[targetId].metadata.lastUpdated = now,
                               !.nextMsgId = @ + 1,
                               !.appendLog[targetId] = Append(@, message)]
               M2 == IF Len(pushed) > summarizeThreshold
                     THEN summarizeConversation(M1, targetId)
                     ELSE M1
           IN  [M2 EXCEPT !.conversations[targetId].messages = evict(@),
                          !.conversations[targetId].summary =
                            IF evict(pushed) # pushed THEN NoSummary ELSE @,
                          !.ret = message]

\* addMessage with messageCount recomputed from the live sequence
MemoryManager_addMessage_liveCount(M, role, content, conversationId) ==
  LET targetId == IF conversationId # Null THEN conversationId ELSE M.activeConversationId
  IN  IF targetId = Null \/ targetId \notin DOMAIN M.conversations
      THEN [M EXCEPT !.ret = NullMessage]
      ELSE LET conversation == M.conversations[targetId]
               message == [id |-> M.nextMsgId, role |-> role, content |-> content,
                           timestamp |-> now]
               pushed == Append(conversation.messages, message)
               M1 == [M EXCEPT !.conversations[targetId].messages = pushed,
                               !.conversations[targetId].metadata.messageCount = Len(evict(pushed)),
                               !.conversations[targetId].metadata.lastUpdated = now,
                               !.nextMsgId = @ + 1,
                               !.appendLog[targetId] = Append(@, message)]
               M2 == IF Len(pushed) > summarizeThreshold
                     THEN summarizeConversation(M1, targetId)
                     ELSE M1
           IN  [M2 EXCEPT !.conversations[targetId].messages = evict(@),
                          !.ret = message]

\* addMessage that prefers the active conversation to the id it is given
MemoryManager_addMessage_activeFirst(M, role, content, conversationId) ==
  LET targetId == IF M.activeConversationId # Null THEN M.activeConversationId
                  ELSE conversationId
  IN  IF targetId = Null \/ targetId \notin DOMAIN M.conversations
      THEN [M EXCEPT !.ret = NullMessage]
      ELSE LET conversation == M.conversations[targetId]
               message == [id |-> M.nextMsgId, role |-> role, content |-> content,
                           timestamp |-> now]
               pushed == Append(conversation.messages, message)
               M1 == [M EXCEPT !.conversations[targetId].messages = pushed,
                               !.conversations[targetId].metadata.messageCount = @ + 1,
                               !.conversations[targetId].metadata.lastUpdated = now,
                               !.nextMsgId = @ + 1,
                               !.appendLog[targetId] = Append(@, message)]
               M2 == IF Len(pushed) > summarizeThreshold
                     THEN summarizeConversation(M1, targetId)
                     ELSE M1
           IN  [M2 EXCEPT !.conversations[targetId].messages = evict(@),
                          !.ret = message]

\* addMessage that leaves metadata.messageCount as it was
MemoryManager_addMessage_uncounted(M, role, content, conversationId) ==
  LET targetId == IF conversationId # Null THEN conversationId ELSE M.activeConversationId
  IN  IF targetId = Null \/ targetId \notin DOMAIN M.conversations
      THEN [M EXCEPT !.ret = NullMessage]
      ELSE LET conversation == M.conversations[targetId]
               message == [id |-> M.nextMsgId, role |-> role, content |-> content,
                           timestamp |-> now]
               pushed == Append(conversation.messages, message)
               M1 == [M EXCEPT !.conversations[targetId].messages = pushed,
                               !.conversations[targetId].metadata.lastUpdated = now,
                               !.nextMsgId = @ + 1,
                               !.appendLog[targetId] = Append(@, message)]
               M2 == IF Len(pushed) > summarizeThreshold
                     THEN summarizeConversation(M1, targetId)
                     ELSE M1
           IN  [M2 EXCEPT !.conversations[targetId].messages = evict(@),
                          !.ret = message]

MemoryManager_addMessage(M, role, content, conversationId) ==
  LET targetId == IF conversationId # Null THEN conversationId ELSE M.activeConversationId
  IN  IF targetId = Null \/ targetId \notin DOMAIN M.conversations
      THEN [M EXCEPT !.ret = NullMessage]
      ELSE LET conversation == M.conversations[targetId]
               message == [id |-> M.nextMsgId, role |-> role, content |-> content,
                           timestamp |-> now]
               pushed == Append(conversation.messages, message)
               M1 == [M EXCEPT !.conversations[targetId].messages = pushed,
                               !.conversations[targetId].metadata.messageCount = @ + 1,
                               !.conversations[targetId].metadata.lastUpdated = now,
                               !.nextMsgId = @ + 1,
                               !.appendLog[targetId] = Append(@, message)]
               M2 == IF Len(pushed) > summarizeThreshold
                     THEN summarizeConversation(M1, targetId)
                     ELSE M1
           IN  [M2 EXCEPT !.conversations[targetId].messages = evict(@),
                          !.ret = message]

\* a copy of the live sequence, or Null
getMessages(M, conversationId) ==
  LET targetId == IF conversationId # Null THEN conversationId ELSE M.activeConversationId
  IN  IF targetId = Null \/ targetId \notin DOMAIN M.conversations
      THEN Null
      ELSE M.conversations[targetId].messages

Without(f, x) == [y \in DOMAIN f \ {x} |-> f[y]]

\* deleteConversation that leaves the active id pointing at the deleted one
MemoryManager_deleteConversation_keepActive(M, conversationId) ==
  IF conversationId \notin DOMAIN M.conversations
  THEN [M EXCEPT !.ret = FALSE]
  ELSE [M EXCEPT !.conversations = Without(@, conversationId),
                 !.appendLog = Without(@, conversationId),
                 !.ret = TRUE]

MemoryManager_deleteConversation(M, conversationId) ==
  IF conversationId \notin DOMAIN M.conversations
  THEN [M EXCEPT !.ret = FALSE]
  ELSE [M EXCEPT !.conversations = Without(@, conversationId),
                 !.activeConversationId = IF @ = conversationId THEN Null ELSE @,
                 !.appendLog = Without(@, conversationId),
                 !.ret = TRUE]

\* ---------------------------------------------------- SqliteMemoryManager
createConversation(M, metadata) ==
  LET M1 == MemoryManager_createConversation(M, metadata)
      id == M1.ret
      conversation == M1.conversations[id]
  IN  IF M1.initialized
      THEN [M1 EXCEPT !.dbConversations =
              (id :> [id |-> id,
                      metadata |-> JSONstringify(conversation.metadata),
                      summary |-> conversation.summary,
                      created_at |-> conversation.metadata.created,
                      updated_at |-> conversation.metadata.lastUpdated]) @@ @]
      ELSE M1

addMessage(M, role, content, conversationId) ==
  LET M1 == MemoryManager_addMessage(M, role, content, conversationId)
      message == M1.ret
  IN  IF message.id # Null /\ M1.initialized
      THEN LET targetId == IF conversationId # Null THEN conversationId
                           ELSE M1.activeConversationId
               conversation == M1.conversations[targetId]
               row == [id |-> message.id, conversation_id |-> targetId,
                       role |-> message.role, content |-> message.content,
                       timestamp |-> message.timestamp]
           IN  [M1 EXCEPT !.dbMessages = Append(@, row),
                          !.dbConversations =
                            IF targetId \in DOMAIN @
                            THEN [@ EXCEPT ![targetId].metadata =
                                             JSONstringify(conversation.metadata),
                                           ![targetId].updated_at =
                                             conversation.metadata.lastUpdated]
                            ELSE @]
      ELSE M1

deleteConversation(M, conversationId) ==
  LET M1 == MemoryManager_deleteConversation(M, conversationId)
  IN  IF M1.ret /\ M1.initialized
      THEN [M1 EXCEPT !.dbMessages =
                        SelectSeq(@, LAMBDA row : row.conversation_id # conversationId),
                      !.dbConversations =
                        IF conversationId \in DOMAIN @ THEN Without(@, conversationId)
                        ELSE @]
      ELSE M1

updateSummary(M, conversationId, summary) ==
  IF conversationId \notin DOMAIN M.conversations
  THEN [M EXCEPT !.ret = FALSE]
  ELSE LET M1 == [M EXCEPT !.conversations[conversationId].summary = summary,
                           !.ret = TRUE]
       IN  IF M1.initialized /\ conversationId \in DOMAIN M1.dbConversations
           THEN [M1 EXCEPT !.dbConversations[conversationId].summary = summary]
           ELSE M1

\* rows of one conversation in an order ORDER BY timestamp ASC can return:
\* ascending timestamps, rows of equal timestamp in any order
RECURSIVE orderedByTimestamp(_)
orderedByTimestamp(rows) ==
  IF rows = {} THEN { <<>> }
  ELSE LET first == { r \in rows : \A q \in rows : r.timestamp <= q.timestamp }
       IN  UNION { { <<r>> \o rest : rest \in orderedByTimestamp(rows \ {r}) } : r \in first }

messageOfRow(row) ==
  [id |-> row.id, role |-> row.role, content |-> row.content, timestamp |-> row.timestamp]

\* the conversation maps SqliteMemoryManager.initialize can build from the tables
loadedConversations(M) ==
  LET rowsOf(id) == { r \in Range(M.dbMessages) : r.conversation_id = id }
      loads(id) == { [i \in DOMAIN rows |-> messageOfRow(rows[i])] :
                         rows \in orderedByTimestamp(rowsOf(id)) }
      ids == DOMAIN M.dbConversations
  IN  { [id \in ids |->
           [id |-> id,
            messages |-> f[id],
            metadata |-> JSONparse(M.dbConversations[id].metadata),
            summary |-> M.dbConversations[id].summary]] :
        f \in { g \in [ids -> UNION { loads(id) : id \in ids }] :
                    \A id \in ids : g[id] \in loads(id) } }

\* --------------------------------------------------------- ContextManager
Context == [files |-> contextFiles, hooks |-> contextHooks]

SetContext(C) ==
  /\ contextFiles' = C.files
  /\ contextHooks' = C.hooks

initializeContext(C, conversationId) ==
  [files |-> IF conversationId \in DOMAIN C.files THEN C.files
             ELSE (conversationId :> <<>>) @@ C.files,
   hooks |-> IF conversationId \in DOMAIN C.hooks THEN C.hooks
             ELSE (conversationId :> <<>>) @@ C.hooks]

\* Set.add on a set kept in insertion order
SetAdd(s, x) == IF x \in Range(s) THEN s ELSE Append(s, x)

SetDelete(s, x) == SelectSeq(s, LAMBDA y : y # x)

\* addSingleFile for a path that passes every check of the validation
addSingleFile(C, conversationId, resolvedPath) ==
  [C EXCEPT !.files[conversationId] = SetAdd(@, resolvedPath)]

RECURSIVE addFilesLoop(_, _, _)
addFilesLoop(C, conversationId, paths) ==
  IF paths = <<>> THEN C
  ELSE addFilesLoop(IF Head(paths) \in Files
                    THEN addSingleFile(C, conversationId, Head(paths))
                    ELSE C,
                    conversationId, Tail(paths))

addFiles(C, conversationId, filePaths) ==
  addFilesLoop(initializeContext(C, conversationId), conversationId, filePaths)

RECURSIVE removeFilesLoop(_, _, _)
removeFilesLoop(C, conversationId, paths) ==
  IF paths = <<>> THEN C
  ELSE removeFilesLoop([C EXCEPT !.files[conversationId] = SetDelete(@, Head(paths))],
                       conversationId, Tail(paths))

removeFiles(C, conversationId, filePaths) ==
  removeFilesLoop(initializeContext(C, conversationId), conversationId, filePaths)

clearFiles(C, conversationId) ==
  [initializeContext(C, conversationId) EXCEPT !.files[conversationId] = <<>>]

addHook(C, conversationId, hookFunction, hookName) ==
  [initializeContext(C, conversationId) EXCEPT
     !.hooks[conversationId] = Append(@, [name |-> hookName, fn |-> hookFunction])]

\* deletes the first hook of that name, if there is one
removeHook(C, conversationId, hookName) ==
  LET C1 == initializeContext(C, conversationId)
      hookSet == C1.hooks[conversationId]
      hits == { i \in DOMAIN hookSet : hookSet[i].name = hookName }
  IN  IF hits = {} THEN C1
      ELSE LET first == CHOOSE i \in hits : \A j \in hits : i <= j
           IN  [C1 EXCEPT !.hooks[conversationId] =
                  SubSeq(hookSet, 1, first - 1) \o SubSeq(hookSet, first + 1, Len(hookSet))]

\* path.relative(process.cwd(), p), the working directory being /w
RelativePath ==
  [p \in Files \cup { "/w/LICENSE", "/w/src/m.js", "/w/src/lib/n.ts" } |->
     CASE p = "/w/LICENSE" -> "LICENSE"
       [] p = "/w/src/m.js" -> "src/m.js"
       [] p = "/w/src/lib/n.ts" -> "src/lib/n.ts"
       [] OTHER -> "a.js"]

\* getContextContent; unreadable: the context files that cannot be read now
getContextContent(C, conversationId, unreadable) ==
  LET files == initializeContext(C, conversationId).files[conversationId]
      block(filePath) ==
        IF filePath \in unreadable
        THEN <<"\n=== ", filePath, " ===\n", "[Error reading file: ", "ENOENT", "]\n",
               "=== END OF FILE ===\n">>
        ELSE <<"\n=== ", RelativePath[filePath], " ===\n">> \o FileText
               \o <<"\n=== END OF FILE ===\n">>
  IN  IF Len(files) = 0 THEN <<>>
      ELSE <<"\n--- CONTEXT FILES ---\n">>
             \o Concat([i \in DOMAIN files |-> block(files[i])])
             \o <<"--- END CONTEXT FILES ---\n\n">>

executeHooks(C, conversationId) ==
  LET hooks == initializeContext(C, conversationId).hooks[conversationId]
      block(hook) ==
        CASE hook.fn = "text" ->
               <<"\n=== ", hook.name, " ===\n">> \o HookText \o <<"\n=== END HOOK ===\n">>
          [] hook.fn = "nothing" -> <<>>
          [] hook.fn = "throws" ->
               <<"\n=== ", hook.name, " ===\n", "[Error executing hook: ", "boom", "]\n",
                 "=== END HOOK ===\n">>
          [] hook.fn = "throwsString" ->      \* error.message of a string: undefined
               <<"\n=== ", hook.name, " ===\n", "[Error executing hook: ", "undefined", "]\n",
                 "=== END HOOK ===\n">>
  IN  IF Len(hooks) = 0 THEN <<>>
      ELSE <<"\n--- CONTEXT HOOKS ---\n">>
             \o Concat([i \in DOMAIN hooks |-> block(hooks[i])])
             \o <<"--- END CONTEXT HOOKS ---\n\n">>

getFullContext(C, conversationId, unreadable) ==
  getContextContent(C, conversationId, unreadable) \o executeHooks(C, conversationId)

\* cleanupConversation that forgets the hook set
cleanupConversation_filesOnly(C, conversationId) ==
  [files |-> IF conversationId \in DOMAIN C.files THEN Without(C.files, conversationId)
             ELSE C.files,
   hooks |-> C.hooks]

cleanupConversation(C, conversationId) ==
  [files |-> IF conversationId \in DOMAIN C.files THEN Without(C.files, conversationId)
             ELSE C.files,
   hooks |-> IF conversationId \in DOMAIN C.hooks THEN Without(C.hooks, conversationId)
             ELSE C.hooks]

\* the conversation has a context file / a hook
hasFiles(C, conversationId) ==
  conversationId \in DOMAIN C.files /\ C.files[conversationId] # <<>>

hasHooks(C, conversationId) ==
  conversationId \in DOMAIN C.hooks /\ C.hooks[conversationId] # <<>>

\* ------------------------------------------------------------ ChatSession
Model == "llama3"                               \* settings.model || "llama3"

NoReply == [success |-> FALSE, response |-> <<>>, error |-> ""]

NoResult == [success |-> FALSE, isToolResult |-> FALSE, message |-> NullMessage,
             error |-> "", toolName |-> ""]

NoTurn ==
  [input |-> <<>>,          \* the raw text passed to sendMessage
   conv |-> Null,           \* the active conversation when the turn began
   before |-> 0,            \* messages appended to it before the turn
   tool |-> "",             \* the tool findMatchingTool selected, "" for none
   dispatch |-> "none",     \* "nomatch", "pending", "success", "failure" or "raised"
   context |-> <<>>,        \* text returned by getFullContext
   request |-> <<>>,        \* messages passed to generateChatCompletion
   modelCalled |-> FALSE,
   reply |-> NoReply,       \* what generateChatCompletion settled with
   done |-> FALSE,
   result |-> NoResult]     \* value sendMessage returned

\* initialize picking the conversation that was updated first
mostRecent_oldest(M) ==
  { id \in DOMAIN M.conversations :
      \A other \in DOMAIN M.conversations :
         M.conversations[other].metadata.lastUpdated
           >= M.conversations[id].metadata.lastUpdated }

\* the conversation initialize picks among existing ones: latest lastUpdated
\* (rows of equal lastUpdated: whichever SELECT * returned first)
mostRecent(M) ==
  { id \in DOMAIN M.conversations :
      \A other \in DOMAIN M.conversations :
         M.conversations[other].metadata.lastUpdated
           <= M.conversations[id].metadata.lastUpdated }

\* the seeding of a new conversation, prompt being settings.systemPrompt
seedPrompt(M, id, prompt) ==
  IF includeSystemPrompt /\ prompt # <<>>
  THEN addMessage(M, "system", prompt, id)
  ELSE M

seedSystemPrompt(M, id) == seedPrompt(M, id, systemPrompt)

createNewConversation(M, metadata) ==
  LET full == metadata @@ [title |-> "New Conversation", model |-> Model]
      M1 == createConversation(M, full)
      id == M1.ret
  IN  [seedSystemPrompt(M1, id) EXCEPT !.ret = id]

\* ChatSession.initialize, on the store M that SqliteMemoryManager.initialize left
initializeWith(M, prompt) ==
  IF DOMAIN M.conversations = {}
  THEN LET M1 == createConversation(M, DefaultMetadata)
           id == M1.ret
       IN  { [seedPrompt(M1, id, prompt) EXCEPT !.ret = id] }
  ELSE { [setActiveConversation(M, id) EXCEPT !.ret = id] : id \in mostRecent(M) }

initialize(M) == initializeWith(M, systemPrompt)

\* SqliteMemoryManager.initialize: the stores it can leave
SqliteInitialize(M) ==
  IF persistMemory
  THEN { [M EXCEPT !.conversations = loaded @@ @, !.initialized = TRUE] :
           loaded \in loadedConversations(M) }
  ELSE { M }

Initialize ==
  /\ ~initialized
  /\ nextConvId <= MaxConversations /\ nextMsgId <= MaxAppends
  /\ \E M0 \in SqliteInitialize(Memory) : \E M1 \in initialize(M0) :
        /\ SetMemory(M1)
        /\ sessionActiveConversationId' = M1.ret
  /\ initialized' = TRUE
  /\ UNCHANGED <<maxMessages, persistMemory, includeSystemPrompt, systemPrompt,
                 contextFiles, contextHooks, pc, turn, now, restarts, edited, deletions>>
  /\ UNCHANGED <<summarizeThreshold, registeredTools, call>>

\* close(), then a new process on the same database: construction and initialize
Restart ==
  /\ initialized /\ pc = "idle" /\ persistMemory
  /\ restarts < MaxRestarts
  /\ IF DOMAIN dbConversations = {}
     THEN nextConvId <= MaxConversations /\ nextMsgId <= MaxAppends
     ELSE TRUE
  /\ LET fresh == [Memory EXCEPT !.conversations = Empty,
                                 !.activeConversationId = Null,
                                 !.initialized = FALSE]
     IN  \E M0 \in SqliteInitialize(fresh) : \E M1 \in initializeWith(M0, DefaultSystemPrompt) :
           /\ SetMemory(M1)
           /\ sessionActiveConversationId' = M1.ret
           /\ edited' = edited \cup
                { id \in DOMAIN conversations :
                    id \notin DOMAIN M1.conversations
                    \/ M1.conversations[id].messages # conversations[id].messages }
  /\ systemPrompt' = DefaultSystemPrompt
  /\ contextFiles' = Empty /\ contextHooks' = Empty
  /\ turn' = NoTurn
  /\ restarts' = restarts + 1
  /\ UNCHANGED <<maxMessages, persistMemory, includeSystemPrompt, initialized, pc, now,
                 deletions>>
  /\ UNCHANGED <<summarizeThreshold, registeredTools, call>>

\* a command loop that reads the next input without awaiting the turn
Ready_notAwaited == initialized

\* the command loop is at its prompt: the session is initialized and the
\* sendMessage it awaited, if any, has settled
Ready == initialized /\ pc = "idle"

CreateNewConversation(metadata) ==
  /\ Ready
  /\ turn' = NoTurn
  /\ nextConvId <= MaxConversations /\ nextMsgId <= MaxAppends
  /\ LET M1 == createNewConversation(Memory, metadata)
     IN  /\ SetMemory(M1)
         /\ sessionActiveConversationId' = M1.ret
  /\ UNCHANGED <<maxMessages, persistMemory, includeSystemPrompt, systemPrompt,
                 initialized, contextFiles, contextHooks, pc, now, restarts, edited, deletions>>
  /\ UNCHANGED <<summarizeThreshold, registeredTools, call>>

SwitchConversation(conversationId) ==
  /\ Ready
  /\ turn' = NoTurn
  /\ LET M1 == setActiveConversation(Memory, conversationId)
     IN  /\ SetMemory(M1)
         /\ sessionActiveConversationId' =
              IF M1.ret THEN conversationId ELSE sessionActiveConversationId
  /\ UNCHANGED <<maxMessages, persistMemory, includeSystemPrompt, systemPrompt,
                 initialized, contextFiles, contextHooks, pc, now, restarts, edited, deletions>>
  /\ UNCHANGED <<summarizeThreshold, registeredTools, call>>

\* deleteConversation that leaves the session without a replacement
DeleteConversation_noReplacement(conversationId) ==
  /\ Ready
  /\ turn' = NoTurn
  /\ IF conversationId = sessionActiveConversationId
     THEN nextConvId <= MaxConversations /\ nextMsgId <= MaxAppends
     ELSE TRUE
  /\ LET M1 == deleteConversation(Memory, conversationId)
         replace == FALSE
         M2 == IF replace THEN createNewConversation(M1, Empty) ELSE M1
     IN  /\ SetMemory(M2)
         /\ sessionActiveConversationId' =
              IF replace THEN M2.ret ELSE sessionActiveConversationId
         /\ SetContext(IF M1.ret THEN cleanupConversation(Context, conversationId)
                       ELSE Context)
  /\ edited' = edited \ {conversationId}
  /\ deletions' =
       IF conversationId \in DOMAIN conversations
       THEN (conversationId :>
               [wasActive |-> activeConversationId = conversationId,
                hadFiles |-> hasFiles(Context, conversationId),
                hadHooks |-> hasHooks(Context, conversationId)]) @@ deletions
       ELSE deletions
  /\ UNCHANGED <<maxMessages, persistMemory, includeSystemPrompt, systemPrompt,
                 initialized, pc, now, restarts>>
  /\ UNCHANGED <<summarizeThreshold, registeredTools, call>>

DeleteConversation(conversationId) ==
  /\ Ready
  /\ turn' = NoTurn
  /\ IF conversationId = sessionActiveConversationId
     THEN nextConvId <= MaxConversations /\ nextMsgId <= MaxAppends
     ELSE TRUE
  /\ LET M1 == deleteConversation(Memory, conversationId)
         replace == M1.ret /\ sessionActiveConversationId = conversationId
         M2 == IF replace THEN createNewConversation(M1, Empty) ELSE M1
     IN  /\ SetMemory(M2)
         /\ sessionActiveConversationId' =
              IF replace THEN M2.ret ELSE sessionActiveConversationId
         /\ SetContext(IF M1.ret THEN cleanupConversation(Context, conversationId)
                       ELSE Context)
  /\ edited' = edited \ {conversationId}
  /\ deletions' =
       IF conversationId \in DOMAIN conversations
       THEN (conversationId :>
               [wasActive |-> activeConversationId = conversationId,
                hadFiles |-> hasFiles(Context, conversationId),
                hadHooks |-> hasHooks(Context, conversationId)]) @@ deletions
       ELSE deletions
  /\ UNCHANGED <<maxMessages, persistMemory, includeSystemPrompt, systemPrompt,
                 initialized, pc, now, restarts>>
  /\ UNCHANGED <<summarizeThreshold, registeredTools, call>>

UpdateSystemPrompt(newPrompt) ==
  /\ Ready
  /\ turn' = NoTurn
  /\ nextMsgId <= MaxAppends
  /\ systemPrompt' = newPrompt
  /\ LET messages == getMessages(Memory, sessionActiveConversationId)
         found == { i \in DOMAIN messages : messages[i].role = "system" }
     IN  IF found # {}
         THEN LET systemMessage == messages[CHOOSE i \in found : \A j \in found : i <= j]
                  M1 == [Memory EXCEPT !.conversations[activeConversationId].messages =
                           SelectSeq(@, LAMBDA msg : msg.id # systemMessage.id)]
              IN  /\ SetMemory(addMessage(M1, "system", newPrompt,
                                          sessionActiveConversationId))
                  /\ edited' = edited \cup {activeConversationId}
         ELSE /\ SetMemory(IF includeSystemPrompt
                           THEN addMessage(Memory, "system", newPrompt,
                                           sessionActiveConversationId)
                           ELSE Memory)
              /\ edited' = edited
  /\ UNCHANGED <<maxMessages, persistMemory, includeSystemPrompt, initialized,
                 sessionActiveConversationId, contextFiles, contextHooks, pc, now, restarts,
                 deletions>>
  /\ UNCHANGED <<summarizeThreshold, registeredTools, call>>

\* the tool branch storing the tool result before the user message
toolTurn_resultFirst(M, message, toolResult) ==
  LET tagged == <<"[Tool: ", toolResult.toolName, "]\n\n">> \o toolResult.result
      M1 == addMessage(M, "assistant", tagged, sessionActiveConversationId)
  IN  addMessage(M1, "user", message, sessionActiveConversationId)

\* the tool branch of sendMessage: user message, then the tagged tool result
toolTurn(M, message, toolResult) ==
  LET M1 == addMessage(M, "user", message, sessionActiveConversationId)
      tagged == <<"[Tool: ", toolResult.toolName, "]\n\n">> \o toolResult.result
  IN  addMessage(M1, "assistant", tagged, sessionActiveConversationId)

\* the messages sendMessage passes to the model, given the live messages
messagesWithContext(messages, messageWithContext) ==
  IF Len(messages) > 0 /\ Last(messages).role = "user"
  THEN [messages EXCEPT ![Len(messages)].content = messageWithContext]
  ELSE messages

\* storing the text that is sent to the model
storedUserContent_withContext(message, messageWithContext) == messageWithContext

\* what sendMessage stores as the user message of a model turn
storedUserContent(message, messageWithContext) == message

\* the model branch of sendMessage, up to the call of generateChatCompletion
callModel(T) ==
  LET C1 == initializeContext(Context, sessionActiveConversationId)
  IN  \E unreadable \in SUBSET Range(C1.files[sessionActiveConversationId]) :
        LET contextContent ==
              getFullContext(Context, sessionActiveConversationId, unreadable)
            messageWithContext ==
              IF contextContent # <<>> THEN contextContent \o T.input ELSE T.input
            M1 == addMessage(Memory, "user",
                             storedUserContent(T.input, messageWithContext),
                             sessionActiveConversationId)
            messages == getMessages(M1, sessionActiveConversationId)
        IN  /\ SetContext(C1)
            /\ SetMemory(M1)
            /\ turn' = [T EXCEPT !.context = contextContent,
                                 !.request = messagesWithContext(messages, messageWithContext),
                                 !.modelCalled = TRUE]
            /\ pc' = "model"

beginTurn(message) ==
  [NoTurn EXCEPT !.input = message,
                 !.conv = sessionActiveConversationId,
                 !.before = Len(appendLog[sessionActiveConversationId])]

\* sendMessage up to its first wait: the tool handler, or the model
SendMessage(message) ==
  /\ Ready
  /\ nextMsgId + 1 <= MaxAppends
  /\ LET tool == findMatchingTool(message)
     IN  IF tool = ""
         THEN callModel([beginTurn(message) EXCEPT !.dispatch = "nomatch"])
         ELSE /\ turn' = [beginTurn(message) EXCEPT !.tool = tool, !.dispatch = "pending"]
              /\ pc' = "tool"
              /\ UNCHANGED <<conversations, activeConversationId, memoryInitialized,
                             dbConversations, dbMessages, nextConvId, nextMsgId,
                             appendLog, summarizeLog, contextFiles, contextHooks>>
  /\ UNCHANGED <<maxMessages, persistMemory, includeSystemPrompt, systemPrompt,
                 initialized, sessionActiveConversationId, now, restarts, edited, deletions>>
  /\ UNCHANGED <<summarizeThreshold, registeredTools, call>>

\* the handler of the matched tool settles: it returns success, returns a
\* failure, or raises an Error that executeToolFromPrompt turns into a failure
ToolReturn(outcome, output) ==
  /\ pc = "tool"
  /\ IF outcome = "success"
     THEN LET toolResult == [success |-> TRUE, result |-> output, toolName |-> turn.tool]
              M2 == toolTurn(Memory, turn.input, toolResult)
          IN  /\ SetMemory(M2)
              /\ turn' = [turn EXCEPT !.dispatch = "success",
                                      !.done = TRUE,
                                      !.result = [success |-> TRUE, isToolResult |-> TRUE,
                                                  message |-> M2.ret, error |-> "",
                                                  toolName |-> toolResult.toolName]]
              /\ pc' = "idle"
              /\ UNCHANGED <<contextFiles, contextHooks>>
     ELSE callModel([turn EXCEPT !.dispatch = outcome])
  /\ UNCHANGED <<maxMessages, persistMemory, includeSystemPrompt, systemPrompt,
                 initialized, sessionActiveConversationId, now, restarts, edited, deletions>>
  /\ UNCHANGED <<summarizeThreshold, registeredTools, call>>

\* sendMessage appending the error text as a reply when the model call failed
afterModel_appendsError(M, result) ==
  IF result.success
  THEN addMessage(M, "assistant", result.response, sessionActiveConversationId)
  ELSE addMessage(M, "assistant", <<result.error>>, sessionActiveConversationId)

\* sendMessage after generateChatCompletion settled with result
afterModel(M, result) ==
  IF result.success
  THEN addMessage(M, "assistant", result.response, sessionActiveConversationId)
  ELSE M

\* generateChatCompletion settles with {success: true, response} or {success: false, error}
ModelReturn(success, response) ==
  /\ pc = "model"
  /\ LET result == IF success
                   THEN [success |-> TRUE, response |-> response, error |-> ""]
                   ELSE [success |-> FALSE, response |-> <<>>, error |-> "model error"]
         M1 == afterModel(Memory, result)
     IN  /\ SetMemory(M1)
         /\ turn' = [turn EXCEPT
                       !.done = TRUE,
                       !.reply = result,
                       !.result = IF result.success
                                  THEN [success |-> TRUE, isToolResult |-> FALSE,
                                        message |-> M1.ret, error |-> "", toolName |-> ""]
                                  ELSE [NoResult EXCEPT !.error = result.error]]
  /\ pc' = "idle"
  /\ UNCHANGED <<maxMessages, persistMemory, includeSystemPrompt, systemPrompt,
                 initialized, sessionActiveConversationId, contextFiles, contextHooks,
                 now, restarts, edited, deletions>>
  /\ UNCHANGED <<summarizeThreshold, registeredTools, call>>

\* ------------------------------------------- calls made on the store and
\* the context manager directly (commands /context ..., library callers)
StoreAddMessage(role, content, conversationId) ==
  /\ Ready
  /\ turn' = NoTurn
  /\ nextMsgId <= MaxAppends
  /\ SetMemory(addMessage(Memory, role, content, conversationId))
  /\ UNCHANGED <<maxMessages, persistMemory, includeSystemPrompt, systemPrompt,
                 initialized, sessionActiveConversationId, contextFiles, contextHooks,
                 pc, now, restarts, edited, deletions>>
  /\ UNCHANGED <<summarizeThreshold, registeredTools, call>>

ContextUnchanged ==
  /\ turn' = NoTurn
  /\ UNCHANGED <<maxMessages, persistMemory, includeSystemPrompt, systemPrompt,
              conversations, activeConversationId, memoryInitialized, dbConversations,
              dbMessages, sessionActiveConversationId, initialized, pc, now,
              nextConvId, nextMsgId, restarts, appendLog, summarizeLog, edited, deletions>>
  /\ UNCHANGED <<summarizeThreshold, registeredTools, call>>

AddFiles(filePaths) ==
  /\ Ready
  /\ SetContext(addFiles(Context, sessionActiveConversationId, filePaths))
  /\ ContextUnchanged

RemoveFiles(filePaths) ==
  /\ Ready
  /\ SetContext(removeFiles(Context, sessionActiveConversationId, filePaths))
  /\ ContextUnchanged

ClearFiles ==
  /\ Ready
  /\ SetContext(clearFiles(Context, sessionActiveConversationId))
  /\ ContextUnchanged

AddHook(hookFunction, hookName) ==
  /\ Ready
  /\ IF sessionActiveConversationId \in DOMAIN contextHooks
     THEN Len(contextHooks[sessionActiveConversationId]) < MaxHooks
     ELSE TRUE
  /\ SetContext(addHook(Context, sessionActiveConversationId, hookFunction, hookName))
  /\ ContextUnchanged

RemoveHook(hookName) ==
  /\ Ready
  /\ SetContext(removeHook(Context, sessionActiveConversationId, hookName))
  /\ ContextUnchanged

\* the millisecond clock moves on
Tick ==
  /\ now < MaxClock
  /\ now' = now + 1
  /\ UNCHANGED <<maxMessages, persistMemory, includeSystemPrompt, systemPrompt,
                 conversations, activeConversationId, memoryInitialized, dbConversations,
                 dbMessages, sessionActiveConversationId, initialized, contextFiles,
                 contextHooks, pc, turn, nextConvId, nextMsgId, restarts, appendLog, summarizeLog,
                 edited, deletions>>
  /\ UNCHANGED <<summarizeThreshold, registeredTools, call>>

\* ---------------------------------------------------------- specification
Init ==
  /\ maxMessages \in 0..MaxLimit
  /\ persistMemory \in BOOLEAN
  /\ includeSystemPrompt \in BOOLEAN
  /\ systemPrompt = DefaultSystemPrompt
  /\ conversations = Empty
  /\ activeConversationId = Null
  /\ memoryInitialized = FALSE
  /\ dbConversations = Empty
  /\ dbMessages = <<>>
  /\ sessionActiveConversationId = Null
  /\ initialized = FALSE
  /\ contextFiles = Empty
  /\ contextHooks = Empty
  /\ pc = "idle"
  /\ turn = NoTurn
  /\ now = 0
  /\ nextConvId = 1
  /\ nextMsgId = 1
  /\ restarts = 0
  /\ appendLog = Empty
  /\ edited = {}
  /\ deletions = Empty
  /\ summarizeThreshold = DefaultSummarizeThreshold
  /\ summarizeLog = <<>>
  /\ registeredTools = DefaultTools
  /\ call = NoCall

Next ==
  \/ Initialize
  \/ Restart
  \/ \E metadata \in { [title |-> "New Conversation"] } : CreateNewConversation(metadata)
  \/ \E id \in 1..MaxConversations : SwitchConversation(id)
  \/ \E id \in 1..MaxConversations : DeleteConversation(id)
  \/ \E p \in NewSystemPrompts : UpdateSystemPrompt(p)
  \/ \E message \in Prompts : SendMessage(message)
  \/ \E outcome \in {"success", "failure", "raised"}, output \in ToolOutputs :
        ToolReturn(outcome, output)
  \/ \E success \in BOOLEAN, response \in ModelReplies : ModelReturn(success, response)
  \/ \E id \in 0..MaxConversations : StoreAddMessage("user", <<"h","i">>, id)
  \/ Tick

Spec == Init /\ [][Next]_vars

\* the same program with the context commands in play: /context add, rm and
\* clear, and hooks added and removed by a library caller
NextContext ==
  \/ Initialize
  \/ \E metadata \in { [title |-> "New Conversation"] } : CreateNewConversation(metadata)
  \/ \E id \in 1..MaxConversations : SwitchConversation(id)
  \/ \E id \in 1..MaxConversations : DeleteConversation(id)
  \/ \E message \in Prompts : SendMessage(message)
  \/ \E outcome \in {"success", "failure", "raised"}, output \in ToolOutputs :
        ToolReturn(outcome, output)
  \/ \E success \in BOOLEAN, response \in ModelReplies : ModelReturn(success, response)
  \/ \E path \in Files : AddFiles(<<path>>)
  \/ \E path \in Files : RemoveFiles(<<path>>)
  \/ ClearFiles
  \/ \E fn \in HookBehaviours, name \in HookNames : AddHook(fn, name)
  \/ \E name \in HookNames : RemoveHook(name)

SpecContext == Init /\ [][NextContext]_vars

\* ------------------------------------------- the tool dispatcher on its own
\* registries other than the default one: registerTool is called with names
\* old and new, and the dispatcher is called on the registry it left
NoTool == [name |-> "", handler |-> "", keywords |-> <<>>]

ToolNames == { "git_diff", "git_status", "custom" }

KeywordLists ==
  { << <<"g","i","t"," ","d","i","f","f">>, <<"d","i","f","f">> >>,
    << <<"s","t","a","t","u","s">> >>,
    << <<"S","t","a","t","u","s">> >> }

\* what a registered handler does when it is called
CustomHandlers == { "throwsError", "throwsString", "throwsNull" }

DefaultHandlers ==
  { "handleGitPullRequest", "handleGitDiff", "handleGitStatus", "handleListDirectory",
    "handleReadFile", "handleExecuteCommand" }

ToolInputs ==
  Prompts \cup
    { <<"s","h","o","w"," ","m","e"," ","t","h","e"," ","g","i","t"," ","d","i","f","f"," ","s","t","a","t","u","s">>,
      <<"S","T","A","T","U","S">> }

\* Map.prototype.set: a known name keeps its place, a new name goes last
registerTool(registered, name, handler, keywords) ==
  LET tool == [name |-> name, handler |-> handler, keywords |-> keywords]
  IN  IF \E i \in DOMAIN registered : registered[i].name = name
      THEN [i \in DOMAIN registered |->
              IF registered[i].name = name THEN tool ELSE registered[i]]
      ELSE Append(registered, tool)

\* findMatchingTool on the registry: the matched tool, NoTool for null
ToolManager_findMatchingTool(prompt) ==
  LET best == bestMatch(registeredTools, toLowerCase(prompt), Len(registeredTools))
  IN  IF best[1] > 0 THEN registeredTools[best[2]] ELSE NoTool

\* what a call of the handler can do: return a result object or throw a value
handlerOutcomes(tool) ==
  CASE tool = NoTool ->
         { [kind |-> "none", value |-> "none"] }
    [] tool.handler = "throwsError" ->
         { [kind |-> "throws", value |-> "Error"] }
    [] tool.handler = "throwsString" ->
         { [kind |-> "throws", value |-> "string"] }
    [] tool.handler = "throwsNull" ->
         { [kind |-> "throws", value |-> "null"], [kind |-> "throws", value |-> "undefined"] }
    [] OTHER ->
         \* the default handlers catch what they run into
         { [kind |-> "returns", value |-> [success |-> TRUE, error |-> <<>>]],
           [kind |-> "returns", value |-> [success |-> FALSE, error |-> <<"failed">>]] }

\* error.message in the catch block: reading a property of null or undefined
\* raises a TypeError, a string has no such property
errorMessage(thrown) ==
  CASE thrown = "Error" -> [kind |-> "value", value |-> "boom"]
    [] thrown = "string" -> [kind |-> "value", value |-> "undefined"]
    [] OTHER -> [kind |-> "throws", value |-> "TypeError"]

\* executeToolFromPrompt when the handler does outcome: how the call settles
executeToolFromPrompt(prompt, tool, outcome) ==
  IF tool = NoTool
  THEN [settled |-> "returned", invoked |-> <<>>,
        value |-> [success |-> FALSE,
                   error |-> <<"No matching tool found for this prompt">>]]
  ELSE IF outcome.kind = "returns"
  THEN [settled |-> "returned", invoked |-> <<tool.name>>, value |-> outcome.value]
  ELSE LET message == errorMessage(outcome.value)
       IN  IF message.kind = "throws"
           THEN [settled |-> "rejected", invoked |-> <<tool.name>>, value |-> message.value]
           ELSE [settled |-> "returned", invoked |-> <<tool.name>>,
                 value |-> [success |-> FALSE,
                            error |-> <<"Error executing tool ", tool.name, ": ",
                                        message.value>>]]

ToolsUnchanged ==
  UNCHANGED <<maxMessages, persistMemory, includeSystemPrompt, systemPrompt,
              conversations, activeConversationId, memoryInitialized, dbConversations,
              dbMessages, sessionActiveConversationId, initialized, contextFiles,
              contextHooks, pc, turn, now, nextConvId, nextMsgId, restarts, appendLog,
              edited, deletions, summarizeThreshold, summarizeLog>>

RegisterTool(name, handler, keywords) ==
  /\ registeredTools' = registerTool(registeredTools, name, handler, keywords)
  /\ call' = [op |-> "registerTool", name |-> name]
  /\ ToolsUnchanged

FindMatchingTool(prompt) ==
  /\ call' = [op |-> "findMatchingTool", prompt |-> prompt,
              ret |-> ToolManager_findMatchingTool(prompt).name]
  /\ UNCHANGED registeredTools
  /\ ToolsUnchanged

ExecuteToolFromPrompt(prompt) ==
  /\ LET tool == ToolManager_findMatchingTool(prompt)
     IN  \E outcome \in handlerOutcomes(tool) :
            call' = [op |-> "executeToolFromPrompt", prompt |-> prompt,
                     tool |-> tool.name, outcome |-> outcome,
                     result |-> executeToolFromPrompt(prompt, tool, outcome)]
  /\ UNCHANGED registeredTools
  /\ ToolsUnchanged

\* a tool manager as its constructor leaves it, in a session that is not used
InitTools ==
  /\ Init
  /\ maxMessages = 0 /\ ~persistMemory /\ includeSystemPrompt

NextTools ==
  \/ \E name \in ToolNames, handler \in CustomHandlers, keywords \in KeywordLists :
        RegisterTool(name, handler, keywords)
  \/ \E prompt \in ToolInputs : FindMatchingTool(prompt)
  \/ \E prompt \in ToolInputs : ExecuteToolFromPrompt(prompt)

SpecTools == InitTools /\ [][NextTools]_vars

\* the prompts the guide lists as test cases, each with the tool the guide
\* says it runs ("" for a prompt answered by the model)
GuideCases ==
  {
    [prompt |->
       <<"c","a","n"," ","y","o","u"," ","c","h","e","c","k"," ","t","h","e"," ","c","h",
         "a","n","g","e","s"," ","i"," ","m","a","d","e"," ","s","o"," ","f","a","r","?",
         " ","p","r","o","b","a","b","l","y"," ","y","o","u"," ","n","e","e","d"," ","t",
         "o"," ","r","u","n"," ","g","i","t"," ","d","i","f","f">>,
     tool |-> "git_diff"],
    [prompt |->
       <<"s","h","o","w"," ","m","e"," ","w","h","a","t"," ","c","h","a","n","g","e","d">>,
     tool |-> "git_diff"],
    [prompt |->
       <<"w","h","a","t"," ","m","o","d","i","f","i","c","a","t","i","o","n","s"," ","d",
         "i","d"," ","I"," ","m","a","k","e","?">>,
     tool |-> "git_diff"],
    [prompt |->
       <<"g","i","t"," ","d","i","f","f"," ","p","l","e","a","s","e">>,
     tool |-> "git_diff"],
    [prompt |->
       <<"c","h","e","c","k"," ","t","h","e"," ","c","h","a","n","g","e","s">>,
     tool |-> "git_diff"],
    [prompt |->
       <<"s","h","o","w"," ","c","u","r","r","e","n","t"," ","g","i","t"," ","s","t","a",
         "t","u","s">>,
     tool |-> "git_status"],
    [prompt |->
       <<"l","i","s","t"," ","f","i","l","e","s"," ","i","n"," ","t","h","i","s"," ","d",
         "i","r","e","c","t","o","r","y">>,
     tool |-> "list_directory"],
    [prompt |->
       <<"w","h","a","t"," ","f","i","l","e","s"," ","a","r","e"," ","h","e","r","e","?">>,
     tool |-> "list_directory"],
    [prompt |->
       <<"l","i","s","t"," ","t","h","e"," ","f","i","l","e","s"," ","h","e","r","e">>,
     tool |-> "list_directory"],
    [prompt |->
       <<"c","a","n"," ","y","o","u"," ","h","e","l","p"," ","m","e"," ","w","i","t","h",
         " ","J","a","v","a","S","c","r","i","p","t"," ","c","o","n","c","e","p","t","s","?">>,
     tool |-> ""]
  }

GuidePrompts == { c.prompt : c \in GuideCases }

\* the dispatcher asked about the guide's prompts, on the default registry
\* and on registries a caller has added a tool to
NextGuide ==
  \/ \E handler \in CustomHandlers, keywords \in KeywordLists :
        RegisterTool("custom", handler, keywords)
  \/ \E prompt \in GuidePrompts : FindMatchingTool(prompt)

SpecGuide == InitTools /\ [][NextGuide]_vars

\* ------------------------------------------------------ the store on its own
\* the public methods of MemoryManager / SqliteMemoryManager called directly,
\* in any order, before and after initialize; call holds the last call and
\* what it returned
StoreMetadata == { Empty, [title |-> "t"], [messageCount |-> 2] }

StoreRoles == { "user" }

StoreContents == { <<"h","i">> }

StoreSummaries == { "s1", "s2" }

SessionUnchanged ==
  UNCHANGED <<maxMessages, persistMemory, includeSystemPrompt, systemPrompt,
              sessionActiveConversationId, initialized, contextFiles, contextHooks,
              pc, turn, edited, deletions, summarizeThreshold, registeredTools>>

\* the append history of the conversations found in the tables, in row order
logOfTables(M) ==
  [id \in DOMAIN M.dbConversations |->
     LET rows == SelectSeq(M.dbMessages, LAMBDA row : row.conversation_id = id)
     IN  [i \in DOMAIN rows |-> messageOfRow(rows[i])]]

\* a new instance on the same database file
newInstance(M) ==
  [M EXCEPT !.conversations = Empty,
            !.activeConversationId = Null,
            !.initialized = FALSE,
            !.appendLog = logOfTables(M)]

Store_initialize ==
  /\ persistMemory /\ ~memoryInitialized
  /\ \E M0 \in SqliteInitialize(Memory) : SetMemory(M0)
  /\ call' = [op |-> "initialize"]
  /\ SessionUnchanged
  /\ UNCHANGED <<now, restarts>>

Store_createConversation(metadata) ==
  /\ nextConvId <= MaxConversations
  /\ LET M1 == createConversation(Memory, metadata)
     IN  /\ SetMemory(M1)
         /\ call' = [op |-> "createConversation", metadata |-> metadata, ret |-> M1.ret]
  /\ SessionUnchanged
  /\ UNCHANGED <<now, restarts>>

Store_setActiveConversation(conversationId) ==
  /\ LET M1 == setActiveConversation(Memory, conversationId)
     IN  /\ SetMemory(M1)
         /\ call' = [op |-> "setActiveConversation", id |-> conversationId, ret |-> M1.ret]
  /\ SessionUnchanged
  /\ UNCHANGED <<now, restarts>>

Store_addMessage(role, content, conversationId) ==
  /\ nextMsgId <= MaxAppends
  /\ LET M1 == addMessage(Memory, role, content, conversationId)
     IN  /\ SetMemory(M1)
         /\ call' = [op |-> "addMessage", role |-> role, content |-> content,
                     id |-> conversationId, ret |-> M1.ret]
  /\ SessionUnchanged
  /\ UNCHANGED <<now, restarts>>

\* conversationId || this.activeConversationId names a conversation
resolves(M, conversationId) ==
  LET targetId == IF conversationId # Null THEN conversationId ELSE M.activeConversationId
  IN  targetId # Null /\ targetId \in DOMAIN M.conversations

Store_getMessages(conversationId) ==
  /\ call' = [op |-> "getMessages", id |-> conversationId,
              found |-> resolves(Memory, conversationId),
              ret |-> IF resolves(Memory, conversationId)
                      THEN getMessages(Memory, conversationId)
                      ELSE <<>>]
  /\ SetMemory(Memory)
  /\ SessionUnchanged
  /\ UNCHANGED <<now, restarts>>

\* what the caller of getMessages does to the array it was given: the array
\* is a new one, its elements are the message objects the store holds
mutateReturned(M, conversationId, kind) ==
  LET targetId == IF conversationId # Null THEN conversationId ELSE M.activeConversationId
  IN  CASE kind = "setContent" ->
             [M EXCEPT !.conversations[targetId].messages[1].content = <<"edited">>]
        [] kind = "setRole" ->
             [M EXCEPT !.conversations[targetId].messages[1].role = "system"]
        [] OTHER -> M      \* push, pop, replace an element: the caller's array only

Caller_mutates(kind) ==
  /\ call.op = "getMessages"
  /\ call.found /\ call.ret # <<>>
  /\ SetMemory(mutateReturned(Memory, call.id, kind))
  /\ call' = [op |-> "mutateReturned", id |-> call.id, kind |-> kind]
  /\ SessionUnchanged
  /\ UNCHANGED <<now, restarts>>

Store_deleteConversation(conversationId) ==
  /\ LET M1 == deleteConversation(Memory, conversationId)
     IN  /\ SetMemory(M1)
         /\ call' = [op |-> "deleteConversation", id |-> conversationId, ret |-> M1.ret]
  /\ SessionUnchanged
  /\ UNCHANGED <<now, restarts>>

\* updateSummary is a method of the durable store only
Store_updateSummary(conversationId, summary) ==
  /\ persistMemory
  /\ LET M1 == updateSummary(Memory, conversationId, summary)
     IN  /\ SetMemory(M1)
         /\ call' = [op |-> "updateSummary", id |-> conversationId, summary |-> summary,
                     ret |-> M1.ret]
  /\ SessionUnchanged
  /\ UNCHANGED <<now, restarts>>

\* close(), then a new instance on the same database is initialized
Store_reopen ==
  /\ persistMemory /\ memoryInitialized
  /\ restarts < MaxRestarts
  /\ \E M0 \in SqliteInitialize(newInstance(Memory)) : SetMemory(M0)
  /\ call' = [op |-> "reopen"]
  /\ restarts' = restarts + 1
  /\ SessionUnchanged
  /\ UNCHANGED now

StoreTick ==
  /\ now < MaxClock
  /\ now' = now + 1
  /\ call' = [op |-> "tick"]
  /\ SetMemory(Memory)
  /\ SessionUnchanged
  /\ UNCHANGED restarts

\* a store as its constructor leaves it
storeConstructed ==
  /\ maxMessages \in 0..MaxLimit
  /\ persistMemory \in BOOLEAN
  /\ includeSystemPrompt = TRUE
  /\ systemPrompt = DefaultSystemPrompt
  /\ conversations = Empty
  /\ activeConversationId = Null
  /\ memoryInitialized = FALSE
  /\ dbConversations = Empty
  /\ dbMessages = <<>>
  /\ sessionActiveConversationId = Null
  /\ initialized = FALSE
  /\ contextFiles = Empty
  /\ contextHooks = Empty
  /\ pc = "idle"
  /\ turn = NoTurn
  /\ now = 0
  /\ nextConvId = 1
  /\ nextMsgId = 1
  /\ restarts = 0
  /\ appendLog = Empty
  /\ edited = {}
  /\ deletions = Empty
  /\ summarizeLog = <<>>
  /\ registeredTools = DefaultTools
  /\ call = NoCall

InitStore ==
  /\ storeConstructed
  /\ summarizeThreshold = DefaultSummarizeThreshold

NextStore ==
  \/ Store_initialize
  \/ \E metadata \in StoreMetadata : Store_createConversation(metadata)
  \/ \E id \in 1..MaxConversations : Store_setActiveConversation(id)
  \/ \E role \in StoreRoles, content \in StoreContents, id \in 0..MaxConversations :
        Store_addMessage(role, content, id)
  \/ \E id \in 1..MaxConversations : Store_deleteConversation(id)
  \/ Store_reopen
  \/ StoreTick

SpecStore == InitStore /\ [][NextStore]_vars

\* the store with callers that change the arrays getMessages gave them
NextSnapshot ==
  \/ Store_initialize
  \/ \E metadata \in { Empty } : Store_createConversation(metadata)
  \/ \E role \in StoreRoles, content \in StoreContents, id \in 0..MaxConversations :
        Store_addMessage(role, content, id)
  \/ \E id \in 0..MaxConversations : Store_getMessages(id)
  \/ \E kind \in { "push", "pop", "replace", "setContent", "setRole" } : Caller_mutates(kind)

SpecSnapshot == InitStore /\ [][NextSnapshot]_vars

\* the store with summaries in play and a threshold the appends can cross
InitSummary ==
  /\ storeConstructed
  /\ summarizeThreshold \in { SmallSummarizeThreshold, DefaultSummarizeThreshold }

NextSummary ==
  \/ Store_initialize
  \/ \E metadata \in { Empty } : Store_createConversation(metadata)
  \/ \E role \in StoreRoles, content \in StoreContents, id \in 0..MaxConversations :
        Store_addMessage(role, content, id)
  \/ \E id \in 1..MaxConversations, summary \in StoreSummaries :
        Store_updateSummary(id, summary)
  \/ \E id \in 1..MaxConversations : Store_deleteConversation(id)
  \/ Store_reopen

SpecSummary == InitSummary /\ [][NextSummary]_vars

\* --------------------------------------- the durable store and process crashes
\* the mutating calls of the durable store, with their arguments
MutatingCalls ==
  { [op |-> "createConversation", metadata |-> Empty] }
    \cup { [op |-> "addMessage", role |-> role, content |-> content, id |-> id] :
             role \in StoreRoles, content \in StoreContents, id \in 0..MaxConversations }
    \cup { [op |-> "deleteConversation", id |-> id] : id \in 1..MaxConversations }
    \cup { [op |-> "updateSummary", id |-> id, summary |-> summary] :
             id \in 1..MaxConversations, summary \in StoreSummaries }

\* the store after the whole of a mutating call
durableCall(M, c) ==
  CASE c.op = "createConversation" -> createConversation(M, c.metadata)
    [] c.op = "addMessage"         -> addMessage(M, c.role, c.content, c.id)
    [] c.op = "deleteConversation" -> deleteConversation(M, c.id)
    [] c.op = "updateSummary"      -> updateSummary(M, c.id, c.summary)

tablesOf(M) == [dbConversations |-> M.dbConversations, dbMessages |-> M.dbMessages]

\* the tables after each SQL statement of a mutating call, in the order in
\* which the call runs them; every statement is run on its own, outside a
\* transaction, and is committed when it returns
statements(M, c) ==
  LET done == durableCall(M, c)
  IN  IF ~M.initialized THEN <<>>
      ELSE CASE c.op = "createConversation" ->
                  << tablesOf(done) >>                               \* INSERT INTO conversations
             [] c.op = "addMessage" ->
                  IF done.ret = NullMessage THEN <<>>
                  ELSE << [dbConversations |-> M.dbConversations,    \* INSERT INTO messages
                           dbMessages |-> done.dbMessages],
                          tablesOf(done) >>                          \* UPDATE conversations
             [] c.op = "deleteConversation" ->
                  IF ~done.ret THEN <<>>
                  ELSE << [dbConversations |-> M.dbConversations,    \* DELETE FROM messages
                           dbMessages |-> done.dbMessages],
                          tablesOf(done) >>                          \* DELETE FROM conversations
             [] c.op = "updateSummary" ->
                  IF ~done.ret THEN <<>>
                  ELSE << tablesOf(done) >>                          \* UPDATE conversations

\* the tables a crash leaves after the first k statements of the call
tablesAtCrash(M, c, k) == IF k = 0 THEN tablesOf(M) ELSE statements(M, c)[k]

\* the process dies inside a mutating call, after k of its statements; what
\* it held in memory is gone, and a new process opens the database
Store_crash(c, k) ==
  /\ persistMemory /\ memoryInitialized
  /\ restarts < MaxRestarts
  /\ c.op = "createConversation" => nextConvId <= MaxConversations
  /\ c.op = "addMessage" => nextMsgId <= MaxAppends
  /\ k \in 0..Len(statements(Memory, c))
  /\ LET done == durableCall(Memory, c)
         left == tablesAtCrash(Memory, c, k)
         dead == [done EXCEPT !.dbConversations = left.dbConversations,
                              !.dbMessages = left.dbMessages]
     IN  \E M0 \in SqliteInitialize(newInstance(dead)) : SetMemory(M0)
  /\ call' = [op |-> "crash", during |-> c, written |-> k,
              of |-> Len(statements(Memory, c))]
  /\ restarts' = restarts + 1
  /\ SessionUnchanged
  /\ UNCHANGED now

InitCrash ==
  /\ storeConstructed
  /\ persistMemory
  /\ summarizeThreshold = DefaultSummarizeThreshold

NextCrash ==
  \/ Store_initialize
  \/ \E metadata \in { Empty } : Store_createConversation(metadata)
  \/ \E role \in StoreRoles, content \in StoreContents, id \in 0..MaxConversations :
        Store_addMessage(role, content, id)
  \/ \E id \in 1..MaxConversations : Store_deleteConversation(id)
  \/ \E id \in 1..MaxConversations, summary \in StoreSummaries :
        Store_updateSummary(id, summary)
  \/ \E c \in MutatingCalls, k \in 0..2 : Store_crash(c, k)

SpecCrash == InitCrash /\ [][NextCrash]_vars

\* ------------------------------------- the durable store and failing writes
\* try block with the statements of createConversation only
insideTry_createOnly(op) == op = "createConversation"

\* the calls whose db.prepare(...).run(...) statements stand inside a
\* try block whose catch logs the error and falls through to the return
insideTry(op) ==
  op \in { "createConversation", "addMessage", "deleteConversation", "updateSummary" }

\* a mutating call whose k-th statement throws: the statements before it are
\* committed, the in-memory part of the call has run before the first one
failingCall(M, c, k) ==
  LET done == durableCall(M, c)
      left == tablesAtCrash(M, c, k - 1)
  IN  [store |-> [done EXCEPT !.dbConversations = left.dbConversations,
                              !.dbMessages = left.dbMessages],
       settled |-> IF insideTry(c.op) THEN "returned" ELSE "thrown",
       attempted |-> [i \in 1..k |-> i]]

Store_writeFails(c, k) ==
  /\ persistMemory /\ memoryInitialized
  /\ c.op = "createConversation" => nextConvId <= MaxConversations
  /\ c.op = "addMessage" => nextMsgId <= MaxAppends
  /\ k \in 1..Len(statements(Memory, c))
  /\ LET failed == failingCall(Memory, c, k)
     IN  /\ SetMemory(failed.store)
         /\ call' = [op |-> "writeFails", during |-> c, failedAt |-> k,
                     settled |-> failed.settled, attempted |-> failed.attempted,
                     ret |-> failed.store.ret]
  /\ SessionUnchanged
  /\ UNCHANGED <<now, restarts>>

NextFailure ==
  \/ Store_initialize
  \/ \E metadata \in { Empty } : Store_createConversation(metadata)
  \/ \E role \in StoreRoles, content \in StoreContents, id \in 0..MaxConversations :
        Store_addMessage(role, content, id)
  \/ \E c \in MutatingCalls, k \in 1..2 : Store_writeFails(c, k)

SpecFailure == InitCrash /\ [][NextFailure]_vars

\* ------------------------------ the session's public operations in any state
\* a library caller holds the session and calls its methods in any order,
\* before initialize as well as after; call holds how the last call settled
returned(op, value) == [op |-> op, settled |-> "returned", ret |-> value]

thrown(op, error) == [op |-> op, settled |-> "thrown", error |-> error]

PublicFrame ==
  UNCHANGED <<maxMessages, persistMemory, includeSystemPrompt, pc, turn, now, restarts,
              edited, deletions, summarizeThreshold>>

Public_initialize ==
  /\ ~initialized
  /\ IF DOMAIN conversations = {}
     THEN nextConvId <= MaxConversations /\ nextMsgId <= MaxAppends
     ELSE TRUE
  /\ \E M0 \in SqliteInitialize(Memory) : \E M1 \in initialize(M0) :
        /\ SetMemory(M1)
        /\ sessionActiveConversationId' = M1.ret
  /\ initialized' = TRUE
  /\ call' = returned("initialize", TRUE)
  /\ UNCHANGED <<systemPrompt, contextFiles, contextHooks, registeredTools>>
  /\ PublicFrame

Public_createNewConversation(metadata) ==
  /\ nextConvId <= MaxConversations /\ nextMsgId <= MaxAppends
  /\ LET M1 == createNewConversation(Memory, metadata)
     IN  /\ SetMemory(M1)
         /\ sessionActiveConversationId' = M1.ret
         /\ call' = returned("createNewConversation", M1.ret)
  /\ UNCHANGED <<systemPrompt, initialized, contextFiles, contextHooks, registeredTools>>
  /\ PublicFrame

Public_switchConversation(conversationId) ==
  /\ LET M1 == setActiveConversation(Memory, conversationId)
     IN  /\ SetMemory(M1)
         /\ sessionActiveConversationId' =
              IF M1.ret THEN conversationId ELSE sessionActiveConversationId
         /\ call' = returned("switchConversation", M1.ret)
  /\ UNCHANGED <<systemPrompt, initialized, contextFiles, contextHooks, registeredTools>>
  /\ PublicFrame

Public_deleteConversation(conversationId) ==
  /\ IF conversationId = sessionActiveConversationId
     THEN nextConvId <= MaxConversations /\ nextMsgId <= MaxAppends
     ELSE TRUE
  /\ LET M1 == deleteConversation(Memory, conversationId)
         replace == M1.ret /\ sessionActiveConversationId = conversationId
         M2 == IF replace THEN createNewConversation(M1, Empty) ELSE M1
     IN  /\ SetMemory(M2)
         /\ sessionActiveConversationId' =
              IF replace THEN M2.ret ELSE sessionActiveConversationId
         /\ SetContext(IF M1.ret THEN cleanupConversation(Context, conversationId)
                       ELSE Context)
         /\ call' = returned("deleteConversation", M1.ret)
  /\ UNCHANGED <<systemPrompt, initialized, registeredTools>>
  /\ PublicFrame

\* updateSystemPrompt: getMessages returns null when the session has no
\* conversation, and messages.find is then a property read on null
Public_updateSystemPrompt(newPrompt) ==
  /\ nextMsgId <= MaxAppends
  /\ systemPrompt' = newPrompt
  /\ IF ~resolves(Memory, sessionActiveConversationId)
     THEN /\ SetMemory(Memory)
          /\ call' = thrown("updateSystemPrompt", "TypeError") @@ [prompt |-> newPrompt]
     ELSE LET messages == getMessages(Memory, sessionActiveConversationId)
              found == { i \in DOMAIN messages : messages[i].role = "system" }
          IN  /\ IF found # {}
                 THEN LET systemMessage ==
                            messages[CHOOSE i \in found : \A j \in found : i <= j]
                          M1 == [Memory EXCEPT
                                   !.conversations[activeConversationId].messages =
                                      SelectSeq(@, LAMBDA msg : msg.id # systemMessage.id)]
                      IN  SetMemory(addMessage(M1, "system", newPrompt,
                                               sessionActiveConversationId))
                 ELSE SetMemory(IF includeSystemPrompt
                                THEN addMessage(Memory, "system", newPrompt,
                                                sessionActiveConversationId)
                                ELSE Memory)
              /\ call' = returned("updateSystemPrompt", TRUE) @@ [prompt |-> newPrompt]
  /\ UNCHANGED <<initialized, sessionActiveConversationId, contextFiles, contextHooks,
                 registeredTools>>
  /\ PublicFrame

\* sendMessage on an initialized session, from the call to the settling of
\* its promise (on a session that is not initialized it runs initialize
\* first); errorListener: an 'error' listener is registered on the session
Public_sendMessage(message, errorListener) ==
  /\ initialized
  /\ nextMsgId + 1 <= MaxAppends
  /\ LET tool == ToolManager_findMatchingTool(message)
         C1 == initializeContext(Context, sessionActiveConversationId)
     IN  \E outcome \in handlerOutcomes(tool), output \in ToolOutputs,
            success \in BOOLEAN, response \in ModelReplies :
           LET toolResult == executeToolFromPrompt(message, tool, outcome)
           IN  IF toolResult.settled = "rejected"
               THEN /\ SetMemory(Memory) /\ SetContext(Context)
                    /\ call' = thrown("sendMessage", toolResult.value)
               ELSE IF toolResult.value.success
               THEN LET M2 == toolTurn(Memory, message,
                                       [success |-> TRUE, result |-> output,
                                        toolName |-> tool.name])
                    IN  /\ SetMemory(M2) /\ SetContext(Context)
                        /\ call' = returned("sendMessage",
                                            [success |-> TRUE, message |-> M2.ret])
               ELSE LET M1 == addMessage(Memory, "user", message,
                                         sessionActiveConversationId)
                        result == IF success
                                  THEN [success |-> TRUE, response |-> response, error |-> ""]
                                  ELSE [success |-> FALSE, response |-> <<>>,
                                        error |-> "model error"]
                        M2 == afterModel(M1, result)
                    IN  /\ SetMemory(M2) /\ SetContext(C1)
                        /\ call' =
                             IF result.success
                             THEN returned("sendMessage",
                                           [success |-> TRUE, message |-> M2.ret])
                             ELSE IF errorListener
                             THEN returned("sendMessage",
                                           [success |-> FALSE, error |-> result.error])
                             ELSE thrown("sendMessage", "ERR_UNHANDLED_ERROR")
  /\ UNCHANGED <<systemPrompt, initialized, sessionActiveConversationId, registeredTools>>
  /\ PublicFrame

NextPublic ==
  \/ Public_initialize
  \/ \E metadata \in { [title |-> "New Conversation"] } :
        Public_createNewConversation(metadata)
  \/ \E id \in 1..MaxConversations : Public_switchConversation(id)
  \/ \E id \in 1..MaxConversations : Public_deleteConversation(id)
  \/ \E p \in NewSystemPrompts : Public_updateSystemPrompt(p)
  \/ \E message \in Prompts, errorListener \in BOOLEAN :
        Public_sendMessage(message, errorListener)
  \/ \E handler \in CustomHandlers : RegisterTool("custom", handler, << <<"h","i">> >>)

SpecPublic == Init /\ [][NextPublic]_vars

\* ----------------------------------------- the context assembler on its own
\* the methods of ContextManager called directly on one conversation, over a
\* small file system; call holds the last call and what it returned
maxFileSize == 1024 * 1024

supportedExtensions ==
  { ".js", ".ts", ".jsx", ".tsx", ".py", ".java", ".cpp", ".c", ".h",
    ".cs", ".php", ".rb", ".go", ".rs", ".kt", ".swift", ".scala",
    ".html", ".css", ".scss", ".less", ".xml", ".json", ".yaml", ".yml",
    ".md", ".txt", ".sql", ".sh", ".bash", ".zsh", ".fish",
    ".dockerfile", ".gitignore", ".env" }

\* paths a caller passes; "a.js" is relative to the working directory /w
InputPaths ==
  { "a.js", "/w/a.js", "/w/LICENSE", "/w/gone.js", "/w/big.js", "/w/app.exe",
    "/w/pipe.js", "/w/locked.js", "/w/src", "/w/empty" }

\* path.resolve
resolve(filePath) == IF filePath = "a.js" THEN "/w/a.js" ELSE filePath

\* what fs.existsSync, fs.statSync, path.extname and fs.readFileSync find
NoFile == [exists |-> FALSE, kind |-> "none", size |-> 0, ext |-> "", readable |-> FALSE]

RegularFile(size, ext) ==
  [exists |-> TRUE, kind |-> "file", size |-> size, ext |-> ext, readable |-> TRUE]

Directory == [exists |-> TRUE, kind |-> "directory", size |-> 0, ext |-> "", readable |-> FALSE]

FileSystem(resolvedPath) ==
  CASE resolvedPath = "/w/a.js"         -> RegularFile(9, ".js")
    [] resolvedPath = "/w/LICENSE"      -> RegularFile(9, "")
    [] resolvedPath = "/w/big.js"       -> RegularFile(2 * 1024 * 1024, ".js")
    [] resolvedPath = "/w/app.exe"      -> RegularFile(9, ".exe")
    [] resolvedPath = "/w/pipe.js"      -> [RegularFile(0, ".js") EXCEPT !.kind = "fifo"]
    [] resolvedPath = "/w/locked.js"    -> [RegularFile(9, ".js") EXCEPT !.readable = FALSE]
    [] resolvedPath = "/w/src"          -> Directory
    [] resolvedPath = "/w/src/.env"     -> RegularFile(9, ".env")
    [] resolvedPath = "/w/src/m.js"     -> RegularFile(9, ".js")
    [] resolvedPath = "/w/src/dist"     -> Directory
    [] resolvedPath = "/w/src/lib"      -> Directory
    [] resolvedPath = "/w/src/lib/n.ts" -> RegularFile(9, ".ts")
    [] resolvedPath = "/w/src/lib/x.exe" -> RegularFile(9, ".exe")
    [] resolvedPath = "/w/empty"        -> Directory
    [] OTHER                            -> NoFile

\* fs.readdirSync(dir, { withFileTypes: true }): entry names and entry paths
readdir(currentPath) ==
  CASE currentPath = "/w/src" ->
         << [name |-> ".env", path |-> "/w/src/.env"],
            [name |-> "dist", path |-> "/w/src/dist"],
            [name |-> "lib", path |-> "/w/src/lib"],
            [name |-> "m.js", path |-> "/w/src/m.js"] >>
    [] currentPath = "/w/src/lib" ->
         << [name |-> "n.ts", path |-> "/w/src/lib/n.ts"],
            [name |-> "x.exe", path |-> "/w/src/lib/x.exe"] >>
    [] OTHER -> <<>>

startsWithDot(name) == name \in { ".env", ".git" }

\* addSingleFile with its checks: the file set after it and the result entry
ContextManager_addSingleFile(contextSet, resolvedPath, originalPath) ==
  LET stats == FileSystem(resolvedPath)
      failure(error) == [contextSet |-> contextSet,
                         result |-> [file |-> originalPath, success |-> FALSE,
                                     error |-> error]]
  IN  IF stats.kind # "file" THEN failure("Path is not a file")
      ELSE IF stats.size > maxFileSize THEN failure("File too large (max 1MB)")
      ELSE IF stats.ext \notin supportedExtensions /\ stats.ext # ""
      THEN failure("File type not supported")
      ELSE IF ~stats.readable THEN failure("EACCES: permission denied")
      ELSE [contextSet |-> SetAdd(contextSet, resolvedPath),
            result |-> [file |-> originalPath, success |-> TRUE, error |-> ""]]

\* processDir of addDirectory: the file set and the two counters after the
\* entries of currentPath from the i-th on
RECURSIVE processDir(_, _, _)
processDir(acc, currentPath, i) ==
  LET entries == readdir(currentPath)
  IN  IF i > Len(entries) THEN acc
      ELSE LET entry == entries[i]
               skipped == [acc EXCEPT !.filesSkipped = @ + 1]
               step ==
                 IF startsWithDot(entry.name) THEN skipped
                 ELSE IF FileSystem(entry.path).kind = "directory"
                         /\ entry.name \in { "node_modules", "dist", "build", "out", ".git" }
                 THEN skipped
                 ELSE IF FileSystem(entry.path).kind = "directory"
                 THEN processDir(acc, entry.path, 1)
                 ELSE IF FileSystem(entry.path).kind = "file"
                 THEN LET one == ContextManager_addSingleFile(acc.contextSet, entry.path,
                                                              entry.path)
                      IN  IF one.result.success
                          THEN [acc EXCEPT !.contextSet = one.contextSet,
                                           !.filesAdded = @ + 1]
                          ELSE skipped
                 ELSE acc
           IN  processDir(step, currentPath, i + 1)

addDirectory(contextSet, dirPath) ==
  processDir([contextSet |-> contextSet, filesAdded |-> 0, filesSkipped |-> 0],
             dirPath, 1)

\* the loop of addFiles over the paths of the batch
RECURSIVE addFilesBatch(_, _, _)
addFilesBatch(contextSet, results, paths) ==
  IF paths = <<>> THEN [contextSet |-> contextSet, results |-> results]
  ELSE LET filePath == Head(paths)
           resolvedPath == resolve(filePath)
           stats == FileSystem(resolvedPath)
       IN  IF ~stats.exists
           THEN addFilesBatch(contextSet,
                              Append(results, [file |-> filePath, success |-> FALSE,
                                               error |-> "Path does not exist"]),
                              Tail(paths))
           ELSE IF stats.kind = "directory"
           THEN LET dirResults == addDirectory(contextSet, resolvedPath)
                IN  addFilesBatch(dirResults.contextSet,
                                  Append(results, [file |-> filePath,
                                                   success |-> dirResults.filesAdded > 0,
                                                   error |-> ""]),
                                  Tail(paths))
           ELSE LET fileResult == ContextManager_addSingleFile(contextSet, resolvedPath,
                                                               filePath)
                IN  addFilesBatch(fileResult.contextSet,
                                  Append(results, fileResult.result), Tail(paths))

\* addFiles that reports success only when every path succeeded
ContextManager_addFiles_allMustSucceed(C, conversationId, filePaths) ==
  LET C1 == initializeContext(C, conversationId)
      done == addFilesBatch(C1.files[conversationId], <<>>, filePaths)
  IN  [context |-> [C1 EXCEPT !.files[conversationId] = done.contextSet],
       ret |-> [success |-> \A i \in DOMAIN done.results : done.results[i].success,
                results |-> done.results,
                totalFiles |-> Len(done.contextSet)]]

\* addFiles with the result object it returns
ContextManager_addFiles(C, conversationId, filePaths) ==
  LET C1 == initializeContext(C, conversationId)
      done == addFilesBatch(C1.files[conversationId], <<>>, filePaths)
  IN  [context |-> [C1 EXCEPT !.files[conversationId] = done.contextSet],
       ret |-> [success |-> \E i \in DOMAIN done.results : done.results[i].success,
                results |-> done.results,
                totalFiles |-> Len(done.contextSet)]]

RECURSIVE removeFilesBatch(_, _, _)
removeFilesBatch(contextSet, results, paths) ==
  IF paths = <<>> THEN [contextSet |-> contextSet, results |-> results]
  ELSE LET filePath == Head(paths)
           resolvedPath == resolve(filePath)
       IN  IF resolvedPath \in Range(contextSet)
           THEN removeFilesBatch(SetDelete(contextSet, resolvedPath),
                                 Append(results, [file |-> filePath, success |-> TRUE,
                                                  error |-> ""]),
                                 Tail(paths))
           ELSE removeFilesBatch(contextSet,
                                 Append(results, [file |-> filePath, success |-> FALSE,
                                                  error |-> "File not in context"]),
                                 Tail(paths))

\* removeFiles that reports success when some path was removed
ContextManager_removeFiles_anySuccess(C, conversationId, filePaths) ==
  LET C1 == initializeContext(C, conversationId)
      done == removeFilesBatch(C1.files[conversationId], <<>>, filePaths)
  IN  [context |-> [C1 EXCEPT !.files[conversationId] = done.contextSet],
       ret |-> [success |-> \E i \in DOMAIN done.results : done.results[i].success,
                results |-> done.results,
                totalFiles |-> Len(done.contextSet)]]

\* removeFiles with the result object it returns
ContextManager_removeFiles(C, conversationId, filePaths) ==
  LET C1 == initializeContext(C, conversationId)
      done == removeFilesBatch(C1.files[conversationId], <<>>, filePaths)
  IN  [context |-> [C1 EXCEPT !.files[conversationId] = done.contextSet],
       ret |-> [success |-> \A i \in DOMAIN done.results : done.results[i].success,
                results |-> done.results,
                totalFiles |-> Len(done.contextSet)]]

\* what a hook function does when it is called
HookFunctions == HookBehaviours \cup { "throwsString", "throwsNull" }

\* the value a hook throws, "none" when it returns
hookThrows(hook) ==
  CASE hook.fn = "throws" -> "Error"
    [] hook.fn = "throwsString" -> "string"
    [] hook.fn = "throwsNull" -> "null"
    [] OTHER -> "none"

\* getFullContext as the caller sees it: the catch block of executeHooks
\* reads error.message, which throws again when the hook threw null
ContextManager_getFullContext(C, conversationId, unreadable) ==
  LET hooks == initializeContext(C, conversationId).hooks[conversationId]
  IN  IF \E i \in DOMAIN hooks :
            /\ hookThrows(hooks[i]) # "none"
            /\ errorMessage(hookThrows(hooks[i])).kind = "throws"
      THEN [settled |-> "rejected", value |-> <<"TypeError">>]
      ELSE [settled |-> "returned",
            value |-> getFullContext(C, conversationId, unreadable)]

\* text.length * this.tokensPerChar in tokens per hundred characters
tokensPerChar == 25

NoText == <<"undefined">>      \* estimateTokenCount() without a text

\* the estimate rounded down
estimateTokenCount_floor(text) ==
  IF text = NoText \/ Len(text) = 0 THEN 0
  ELSE (Len(text) * tokensPerChar) \div 100

\* Math.ceil(text.length * 0.25)
estimateTokenCount(text) ==
  IF text = NoText \/ Len(text) = 0 THEN 0
  ELSE LET product == Len(text) * tokensPerChar
       IN  IF product % 100 = 0 THEN product \div 100 ELSE product \div 100 + 1

Texts == { NoText } \cup UNION { [1..n -> { "a" }] : n \in 0..MaxTextLen }

Batches == UNION { [1..n -> InputPaths] : n \in 1..MaxBatch }

AssemblerId == 1      \* the conversation the calls are made for

AssemblerFrame ==
  UNCHANGED <<maxMessages, persistMemory, includeSystemPrompt, systemPrompt,
              conversations, activeConversationId, memoryInitialized, dbConversations,
              dbMessages, sessionActiveConversationId, initialized, pc, turn, now,
              nextConvId, nextMsgId, restarts, appendLog, edited, deletions,
              summarizeThreshold, summarizeLog, registeredTools>>

Ctx_addFiles(filePaths) ==
  /\ LET done == ContextManager_addFiles(Context, AssemblerId, filePaths)
     IN  /\ SetContext(done.context)
         /\ call' = [op |-> "addFiles", paths |-> filePaths, ret |-> done.ret]
  /\ AssemblerFrame

Ctx_removeFiles(filePaths) ==
  /\ LET done == ContextManager_removeFiles(Context, AssemblerId, filePaths)
     IN  /\ SetContext(done.context)
         /\ call' = [op |-> "removeFiles", paths |-> filePaths, ret |-> done.ret]
  /\ AssemblerFrame

Ctx_addHook(hookFunction, hookName) ==
  /\ IF AssemblerId \in DOMAIN contextHooks
     THEN Len(contextHooks[AssemblerId]) < MaxHooks
     ELSE TRUE
  /\ SetContext(addHook(Context, AssemblerId, hookFunction, hookName))
  /\ call' = [op |-> "addHook", name |-> hookName]
  /\ AssemblerFrame

Ctx_removeHook(hookName) ==
  /\ SetContext(removeHook(Context, AssemblerId, hookName))
  /\ call' = [op |-> "removeHook", name |-> hookName]
  /\ AssemblerFrame

Ctx_getFullContext(unreadable) ==
  /\ LET C1 == initializeContext(Context, AssemblerId)
     IN  /\ unreadable \subseteq Range(C1.files[AssemblerId])
         /\ SetContext(C1)
         /\ call' = [op |-> "getFullContext", unreadable |-> unreadable,
                     result |-> ContextManager_getFullContext(Context, AssemblerId,
                                                              unreadable)]
  /\ AssemblerFrame

Ctx_estimateTokenCount(text) ==
  /\ call' = [op |-> "estimateTokenCount", text |-> text, ret |-> estimateTokenCount(text)]
  /\ UNCHANGED <<contextFiles, contextHooks>>
  /\ AssemblerFrame

InitAssembler ==
  /\ Init
  /\ maxMessages = 0 /\ ~persistMemory /\ includeSystemPrompt

NextAssembler ==
  \/ \E filePath \in InputPaths : Ctx_addFiles(<<filePath>>)
  \/ \E fn \in HookFunctions, name \in HookNames : Ctx_addHook(fn, name)
  \/ \E name \in HookNames : Ctx_removeHook(name)
  \/ \E unreadable \in SUBSET { "/w/a.js", "/w/LICENSE", "/w/src/m.js", "/w/src/lib/n.ts" } :
        Ctx_getFullContext(unreadable)
  \/ \E text \in Texts : Ctx_estimateTokenCount(text)

SpecAssembler == InitAssembler /\ [][NextAssembler]_vars

\* the file commands alone, with batches of several paths
NextFiles ==
  \/ \E filePaths \in Batches : Ctx_addFiles(filePaths)
  \/ \E filePaths \in Batches : Ctx_removeFiles(filePaths)

SpecFiles == InitAssembler /\ [][NextFiles]_vars

\* a session whose store a library caller also writes to, with system
\* prompts that may be empty, initialized late and restarted
PromptArguments == NewSystemPrompts \cup { <<>> }

NextPrompt ==
  \/ Public_initialize
  \/ \E metadata \in { [title |-> "New Conversation"] } :
        Public_createNewConversation(metadata)
  \/ \E p \in PromptArguments : Public_updateSystemPrompt(p)
  \/ \E role \in { "system", "user" }, content \in StoreContents, id \in { Null, 1 } :
        Store_addMessage(role, content, id)
  \/ Restart
  \/ StoreTick

SpecPrompt == Init /\ [][NextPrompt]_vars

\* ------------------------------------------------ the configuration loader
\* JavaScript values, each with its type: numbers and booleans are written
\* as the text JavaScript prints for them
Undefined == [t |-> "undefined", v |-> ""]

Str(s) == [t |-> "string", v |-> s]

Num(s) == [t |-> "number", v |-> s]

Bool(s) == [t |-> "boolean", v |-> s]

\* if (x): neither undefined, nor '', nor 0, nor NaN, nor false
truthy(x) ==
  CASE x.t = "string" -> x.v # ""
    [] x.t = "number" -> x.v \notin { "0", "NaN" }
    [] x.t = "boolean" -> x.v = "true"
    [] OTHER -> FALSE

DecimalTexts == { "0", "50" }

\* parseInt(text, 10) and parseFloat(text) on the texts tried
parseInt(x) == IF x.v \in DecimalTexts THEN Num(x.v) ELSE Num("NaN")

parseFloat(x) == IF x.v \in DecimalTexts THEN Num(x.v) ELSE Num("NaN")

\* text === 'true'
isTrueText(x) == Bool(IF x = Str("true") THEN "true" ELSE "false")

\* !value
not(x) == Bool(IF truthy(x) THEN "false" ELSE "true")

\* this.config as the constructor leaves it
ConfigDefaults ==
  [baseUrl |-> Str("http://localhost:11434/api"),
   defaultModel |-> Str("llama3.2:latest"),
   persistMemory |-> Bool("true"),
   maxMessages |-> Num("100"),
   summarizeThreshold |-> Num("50"),
   temperature |-> Num("0.7"),
   maxTokens |-> Num("30000"),
   includeSystemPrompt |-> Bool("true"),
   systemPrompt |-> Str("You are a helpful assistant. Respond concisely and accurately.")]

ConfigKeys == DOMAIN ConfigDefaults

\* the variable of the environment, or of an env file, that carries a key
EnvName(key) ==
  CASE key = "baseUrl" -> "OLLAMA_BASE_URL"
    [] key = "defaultModel" -> "OLLAMA_DEFAULT_MODEL"
    [] key = "persistMemory" -> "PERSIST_MEMORY"
    [] key = "maxMessages" -> "MAX_MESSAGES"
    [] key = "summarizeThreshold" -> "SUMMARIZE_THRESHOLD"
    [] key = "temperature" -> "TEMPERATURE"
    [] key = "maxTokens" -> "MAX_TOKENS"
    [] key = "systemPrompt" -> "SYSTEM_PROMPT"
    [] key = "includeSystemPrompt" -> "INCLUDE_SYSTEM_PROMPT"

\* the command-line option that carries a key
OptionName(key) ==
  CASE key = "baseUrl" -> "baseUrl"
    [] key = "defaultModel" -> "model"
    [] key = "persistMemory" -> "persist"
    [] key = "maxMessages" -> "maxMessages"
    [] key = "summarizeThreshold" -> "summarizeThreshold"
    [] key = "temperature" -> "temperature"
    [] key = "maxTokens" -> "maxTokens"
    [] key = "systemPrompt" -> "system"
    [] key = "includeSystemPrompt" -> "noSystem"

\* an environment, or a parsed env file, that sets nothing
NoEnv == [name \in { EnvName(key) : key \in ConfigKeys } |-> Undefined]

\* command-line options that set nothing
NoOptions == [name \in { OptionName(key) : key \in ConfigKeys } |-> Undefined]

\* fs.existsSync(path) is false
NoEnvFile == [exists |-> FALSE, parsed |-> NoEnv]

\* applyEnvConfig(envConfig), and loadFromEnv() with process.env as envConfig:
\* the two bodies are the same statement for statement
applyEnvConfig(config, envConfig) ==
  [config EXCEPT
     !.baseUrl = IF truthy(envConfig.OLLAMA_BASE_URL) THEN envConfig.OLLAMA_BASE_URL ELSE @,
     !.defaultModel =
        IF truthy(envConfig.OLLAMA_DEFAULT_MODEL) THEN envConfig.OLLAMA_DEFAULT_MODEL ELSE @,
     !.persistMemory =
        IF envConfig.PERSIST_MEMORY # Undefined THEN isTrueText(envConfig.PERSIST_MEMORY) ELSE @,
     !.maxMessages =
        IF truthy(envConfig.MAX_MESSAGES) THEN parseInt(envConfig.MAX_MESSAGES) ELSE @,
     !.summarizeThreshold =
        IF truthy(envConfig.SUMMARIZE_THRESHOLD)
        THEN parseInt(envConfig.SUMMARIZE_THRESHOLD) ELSE @,
     !.temperature =
        IF truthy(envConfig.TEMPERATURE) THEN parseFloat(envConfig.TEMPERATURE) ELSE @,
     !.maxTokens = IF truthy(envConfig.MAX_TOKENS) THEN parseInt(envConfig.MAX_TOKENS) ELSE @,
     !.systemPrompt = IF truthy(envConfig.SYSTEM_PROMPT) THEN envConfig.SYSTEM_PROMPT ELSE @,
     !.includeSystemPrompt =
        IF envConfig.INCLUDE_SYSTEM_PROMPT # Undefined
        THEN isTrueText(envConfig.INCLUDE_SYSTEM_PROMPT) ELSE @]

loadFromEnv(config, env) == applyEnvConfig(config, env)

\* loadFromGlobalEnv and loadFromLocalEnv: the file, when it exists
loadFromEnvFile(config, file) ==
  IF file.exists THEN applyEnvConfig(config, file.parsed) ELSE config

loadFromCliOptions(config, cliOptions) ==
  [config EXCEPT
     !.defaultModel = IF truthy(cliOptions.model) THEN cliOptions.model ELSE @,
     !.baseUrl = IF truthy(cliOptions.baseUrl) THEN cliOptions.baseUrl ELSE @,
     !.persistMemory = IF cliOptions.persist # Undefined THEN cliOptions.persist ELSE @,
     !.maxMessages = IF truthy(cliOptions.maxMessages) THEN cliOptions.maxMessages ELSE @,
     !.summarizeThreshold =
        IF truthy(cliOptions.summarizeThreshold) THEN cliOptions.summarizeThreshold ELSE @,
     !.temperature = IF cliOptions.temperature # Undefined THEN cliOptions.temperature ELSE @,
     !.maxTokens = IF truthy(cliOptions.maxTokens) THEN cliOptions.maxTokens ELSE @,
     !.systemPrompt = IF truthy(cliOptions.system) THEN cliOptions.system ELSE @,
     !.includeSystemPrompt =
        IF cliOptions.noSystem # Undefined THEN not(cliOptions.noSystem) ELSE @]

loadConfig(cliOptions, env, localEnv, globalEnv) ==
  LET c1 == loadFromEnvFile(ConfigDefaults, globalEnv)
      c2 == loadFromEnvFile(c1, localEnv)
      c3 == loadFromEnv(c2, env)
  IN  loadFromCliOptions(c3, cliOptions)

\* texts an environment variable or a line of an env file can hold
EnvTexts == { "", "0", "50", "true", "false", "abc" }

\* values a caller can pass for an option, by the type of the key
OptionValues(key) ==
  CASE ConfigDefaults[key].t = "string" -> { Str(""), Str("abc") }
    [] ConfigDefaults[key].t = "number" -> { Num("0"), Num("50") }
    [] ConfigDefaults[key].t = "boolean" -> { Bool("true"), Bool("false") }

Environments(key) ==
  { NoEnv } \cup { [NoEnv EXCEPT ![EnvName(key)] = Str(text)] : text \in EnvTexts }

EnvFiles(key) ==
  { NoEnvFile } \cup { [exists |-> TRUE, parsed |-> e] : e \in Environments(key) }

Options(key) ==
  { NoOptions } \cup { [NoOptions EXCEPT ![OptionName(key)] = value] : value \in OptionValues(key) }

ConfigFrame ==
  UNCHANGED <<maxMessages, persistMemory, includeSystemPrompt, systemPrompt,
              conversations, activeConversationId, memoryInitialized, dbConversations,
              dbMessages, sessionActiveConversationId, initialized, contextFiles,
              contextHooks, pc, turn, now, nextConvId, nextMsgId, restarts, appendLog,
              edited, deletions, summarizeThreshold, summarizeLog, registeredTools>>

\* loadConfig(cliOptions), called once on the ConfigManager the module
\* constructs, in a process whose environment and env files say something,
\* or nothing, about one key
Config_loadConfig(key, cliOptions, env, localEnv, globalEnv) ==
  /\ call = NoCall
  /\ call' = [op |-> "loadConfig", key |-> key, cliOptions |-> cliOptions, env |-> env,
              localEnv |-> localEnv, globalEnv |-> globalEnv,
              ret |-> loadConfig(cliOptions, env, localEnv, globalEnv)]
  /\ ConfigFrame

InitConfig ==
  /\ Init
  /\ maxMessages = 0 /\ ~persistMemory /\ includeSystemPrompt

NextConfig ==
  \E key \in ConfigKeys :
    \E cliOptions \in Options(key), env \in Environments(key),
       localEnv \in EnvFiles(key), globalEnv \in EnvFiles(key) :
      Config_loadConfig(key, cliOptions, env, localEnv, globalEnv)

SpecConfig == InitConfig /\ [][NextConfig]_vars

\* ------------------------------------------ hooks added and removed by name
MaxHookSet == 2         \* hooks one conversation holds at a time
HookIds == 1..2         \* conversations the hook calls are made for
NamedHooks == { "clock", "git" }

\* the value removeHook returns: true when a hook of that name was found
removeHook_returns(C, conversationId, hookName) ==
  LET hookSet == initializeContext(C, conversationId).hooks[conversationId]
  IN  \E i \in DOMAIN hookSet : hookSet[i].name = hookName

Hooks_addHook(conversationId, hookFunction, hookName) ==
  /\ Len(initializeContext(Context, conversationId).hooks[conversationId]) < MaxHookSet
  /\ SetContext(addHook(Context, conversationId, hookFunction, hookName))
  /\ call' = [op |-> "addHook", id |-> conversationId, name |-> hookName]
  /\ AssemblerFrame

Hooks_removeHook(conversationId, hookName) ==
  /\ SetContext(removeHook(Context, conversationId, hookName))
  /\ call' = [op |-> "removeHook", id |-> conversationId, name |-> hookName,
              ret |-> removeHook_returns(Context, conversationId, hookName)]
  /\ AssemblerFrame

Hooks_getFullContext(conversationId) ==
  /\ SetContext(initializeContext(Context, conversationId))
  /\ call' = [op |-> "getFullContext", id |-> conversationId,
              result |-> ContextManager_getFullContext(Context, conversationId, {})]
  /\ AssemblerFrame

NextHooks ==
  \/ \E id \in HookIds, fn \in { "text", "throws" }, name \in NamedHooks :
        Hooks_addHook(id, fn, name)
  \/ \E id \in HookIds, name \in NamedHooks : Hooks_removeHook(id, name)
  \/ \E id \in HookIds : Hooks_getFullContext(id)

SpecHooks == InitAssembler /\ [][NextHooks]_vars

\* ------------------------------- a turn and the calls made while it waits
\* sendMessage started by a caller that does not wait for it: the turn is
\* suspended at each await (the tool handler, getFullContext, the model) and
\* switchConversation, createNewConversation and deleteConversation run in
\* between; this.activeConversationId is read again at every use
TurnFrame ==
  /\ UNCHANGED <<maxMessages, persistMemory, includeSystemPrompt, systemPrompt,
                 initialized, sessionActiveConversationId, now, restarts, edited, deletions>>
  /\ UNCHANGED <<summarizeThreshold, registeredTools, call>>

\* sendMessage up to await this.processToolCommand(message)
Turn_start(message) ==
  /\ initialized /\ pc = "idle"
  /\ nextMsgId + 1 <= MaxAppends
  /\ LET tool == findMatchingTool(message)
     IN  /\ turn' = [beginTurn(message) EXCEPT
                       !.tool = tool,
                       !.dispatch = IF tool = "" THEN "nomatch" ELSE "pending"]
         /\ pc' = IF tool = "" THEN "dispatch" ELSE "tool"
  /\ SetMemory(Memory) /\ SetContext(Context)
  /\ TurnFrame

\* processToolCommand settles: the tool branch appends both messages, any
\* other outcome goes on to await this.context.getFullContext(id), id being
\* this.activeConversationId as it is now
Turn_toolSettles(outcome, output) ==
  /\ pc \in { "tool", "dispatch" }
  /\ pc = "dispatch" => outcome = "nomatch"
  /\ pc = "tool" => outcome # "nomatch"
  /\ IF outcome = "success"
     THEN LET toolResult == [success |-> TRUE, result |-> output, toolName |-> turn.tool]
              M2 == toolTurn(Memory, turn.input, toolResult)
          IN  /\ SetMemory(M2)
              /\ turn' = [turn EXCEPT !.dispatch = "success",
                                      !.done = TRUE,
                                      !.result = [success |-> TRUE, isToolResult |-> TRUE,
                                                  message |-> M2.ret, error |-> "",
                                                  toolName |-> toolResult.toolName]]
              /\ pc' = "idle"
     ELSE /\ SetMemory(Memory)
          /\ turn' = [turn EXCEPT !.dispatch = outcome,
                                  !.conv = sessionActiveConversationId]
          /\ pc' = "context"
  /\ SetContext(Context)
  /\ TurnFrame

\* getFullContext settles with the context of the conversation it was called
\* for; the user message goes to this.activeConversationId as it is now, and
\* the model is called
Turn_contextSettles ==
  /\ pc = "context"
  /\ LET C1 == initializeContext(Context, turn.conv)
     IN  \E unreadable \in SUBSET Range(C1.files[turn.conv]) :
           LET contextContent == getFullContext(Context, turn.conv, unreadable)
               messageWithContext ==
                 IF contextContent # <<>> THEN contextContent \o turn.input ELSE turn.input
               M1 == addMessage(Memory, "user",
                                storedUserContent(turn.input, messageWithContext),
                                sessionActiveConversationId)
               messages == getMessages(M1, sessionActiveConversationId)
           IN  /\ SetContext(C1)
               /\ SetMemory(M1)
               /\ turn' = [turn EXCEPT
                             !.context = contextContent,
                             !.request = messagesWithContext(messages, messageWithContext),
                             !.modelCalled = TRUE]
  /\ pc' = "model"
  /\ TurnFrame

NextInterleaved ==
  \/ Public_initialize
  \/ \E message \in Prompts : Turn_start(message)
  \/ \E outcome \in {"nomatch", "success", "failure", "raised"}, output \in ToolOutputs :
        Turn_toolSettles(outcome, output)
  \/ Turn_contextSettles
  \/ \E success \in BOOLEAN, response \in ModelReplies : ModelReturn(success, response)
  \/ \E metadata \in { [title |-> "New Conversation"] } :
        Public_createNewConversation(metadata)
  \/ \E id \in 1..MaxConversations : Public_switchConversation(id)
  \/ \E id \in 1..MaxConversations : Public_deleteConversation(id)

SpecInterleaved == InitTools /\ [][NextInterleaved]_vars

\* ------------------------------------------------------------------ claims
\* the step appended at least one message to conversation c
Appended(c) ==
  /\ c \in DOMAIN appendLog'
  /\ IF c \in DOMAIN appendLog THEN appendLog'[c] # appendLog[c] ELSE appendLog'[c] # <<>>

\* the messages the step appended to conversation c, in call order
NewlyAppended(c) ==
  IF c \in DOMAIN appendLog
  THEN SubSeq(appendLog'[c], Len(appendLog[c]) + 1, Len(appendLog'[c]))
  ELSE appendLog'[c]

LiveBefore(c) == IF c \in DOMAIN conversations THEN conversations[c].messages ELSE <<>>

UpdateSystemPromptStep == \E p \in NewSystemPrompts : UpdateSystemPrompt(p)

\* C1: with maxMessages > 0, a conversation holds at most maxMessages live
\* messages whenever a call that appended to it has returned; with
\* maxMessages <= 0 nothing is evicted: the live sequence never shrinks and,
\* where only addMessage has touched it, is everything ever appended.
C1_EvictionInvariant ==
  [][\A c \in DOMAIN conversations' :
       /\ (maxMessages > 0 /\ Appended(c))
            => Len(conversations'[c].messages) <= maxMessages
       /\ (maxMessages <= 0 /\ c \in DOMAIN conversations)
            => Len(conversations'[c].messages) >= Len(conversations[c].messages)
       /\ (maxMessages <= 0 /\ c \notin edited')
            => conversations'[c].messages = appendLog'[c]]_vars

\* an append pushed a conversation over a positive limit and it was cut back to it
C1_Witness ==
  \E c \in DOMAIN conversations :
     /\ maxMessages > 0 /\ restarts = 0 /\ c \notin edited
     /\ Len(appendLog[c]) > maxMessages
     /\ Len(conversations[c].messages) = maxMessages

C3_OldestFirst ==
  [][\A c \in DOMAIN conversations' :
       /\ (maxMessages > 0 /\ c \notin edited')
            => conversations'[c].messages = LastN(appendLog'[c], maxMessages)
       /\ (maxMessages > 0 /\ Appended(c) /\ restarts' = restarts
              /\ ~UpdateSystemPromptStep)
            => conversations'[c].messages
                 = LastN(LiveBefore(c) \o NewlyAppended(c), maxMessages)]_vars

\* a system message was appended and has been evicted as the oldest
C3_Witness ==
  \E c \in DOMAIN conversations :
     /\ maxMessages > 0 /\ c \notin edited
     /\ Len(conversations[c].messages) = maxMessages
     /\ \E i \in DOMAIN appendLog[c] : appendLog[c][i].role = "system"
     /\ \A j \in DOMAIN conversations[c].messages :
           conversations[c].messages[j].role # "system"

\* a step in which the conversation id is deleted
DeleteStep(id) == id \in DOMAIN conversations /\ id \notin DOMAIN conversations'

\* C4: closing a durable store and initializing a new one gives back the
\* same conversation ids, each with the messages appended to it, in the
\* order in which they were appended.
C4_RoundTrip ==
  [][(restarts' = restarts + 1 /\ persistMemory) =>
       /\ DOMAIN conversations' = DOMAIN conversations
       /\ \A c \in DOMAIN conversations' :
            conversations'[c].messages = appendLog[c]]_vars

\* C5: what the durable store holds on disk is what it holds in memory:
\* loading the database gives the live conversations.
C5_PersistedEqualsMemory ==
  (persistMemory /\ memoryInitialized) =>
     \E loaded \in loadedConversations(Memory) :
        /\ DOMAIN loaded = DOMAIN conversations
        /\ \A c \in DOMAIN loaded : loaded[c].messages = conversations[c].messages

\* C6: after a conversation is deleted through the session, the session
\* has an active conversation that exists; deleting the active one creates
\* a new conversation and makes it active, deleting another one leaves the
\* active conversation as it was.
C6_ActiveAfterDelete ==
  [][\A id \in DOMAIN conversations :
       DeleteStep(id) =>
         /\ sessionActiveConversationId' \in DOMAIN conversations'
         /\ activeConversationId' = sessionActiveConversationId'
         /\ (id = sessionActiveConversationId) =>
               /\ sessionActiveConversationId' \notin DOMAIN conversations
               /\ sessionActiveConversationId' # id
         /\ (id # sessionActiveConversationId) =>
               /\ sessionActiveConversationId' = sessionActiveConversationId
               /\ activeConversationId' = activeConversationId]_vars

\* C6 witness: the active conversation was deleted and another one is active
C6_Witness ==
  \E id \in DOMAIN deletions :
     /\ deletions[id].wasActive
     /\ id \notin DOMAIN conversations
     /\ sessionActiveConversationId \in DOMAIN conversations
     /\ sessionActiveConversationId # id

\* C7: deleting a conversation through the session removes its context
\* files and its hooks, and leaves the context of every other conversation
\* alone; a deleted conversation has no context afterwards.
C7_ContextCleanup ==
  [][/\ \A id \in DOMAIN conversations :
          DeleteStep(id) =>
            /\ DOMAIN contextFiles' = DOMAIN contextFiles \ {id}
            /\ DOMAIN contextHooks' = DOMAIN contextHooks \ {id}
            /\ \A other \in DOMAIN contextFiles' : contextFiles'[other] = contextFiles[other]
            /\ \A other \in DOMAIN contextHooks' : contextHooks'[other] = contextHooks[other]
     /\ \A id \in DOMAIN deletions' :
          id \notin DOMAIN contextFiles' /\ id \notin DOMAIN contextHooks']_vars

\* C7 witness: a conversation that had a context file and a hook was
\* deleted, while another conversation still has its context
C7_Witness ==
  \E id \in DOMAIN deletions :
     /\ deletions[id].hadFiles /\ deletions[id].hadHooks
     /\ id \notin DOMAIN contextFiles /\ id \notin DOMAIN contextHooks
     /\ \E other \in DOMAIN contextFiles : contextFiles[other] # <<>>

ContextPieces ==
  {"\n--- CONTEXT FILES ---\n", "\n--- CONTEXT HOOKS ---\n", "\n--- END CONTEXT ---\n\n"}
    \cup Range(FileText) \cup Range(HookText)

HasContextText(content) == \E i \in DOMAIN content : content[i] \in ContextPieces

\* C9: context is sent to the model and never stored: the request is the
\* live history with the content of its last message, the user message of
\* the turn, prefixed by the context text; the stored user message is the
\* raw input, and no stored message holds context text.
C9_ContextNotPersisted ==
  /\ \A c \in DOMAIN conversations :
        \A i \in DOMAIN conversations[c].messages :
           ~HasContextText(conversations[c].messages[i].content)
  /\ \A i \in DOMAIN dbMessages : ~HasContextText(dbMessages[i].content)
  /\ (pc = "model") =>
        LET live == conversations[turn.conv].messages
            n == Len(live)
        IN  /\ n > 0
            /\ Len(turn.request) = n
            /\ live[n].role = "user"
            /\ live[n].content = turn.input
            /\ \E unreadable \in SUBSET Files :
                  turn.context = getFullContext(Context, turn.conv, unreadable)
            /\ turn.request[n].role = "user"
            /\ turn.request[n].content = turn.context \o turn.input
            /\ \A i \in 1..(n - 1) :
                  /\ turn.request[i].role = live[i].role
                  /\ turn.request[i].content = live[i].content

\* C9 witness: the model is called with context in front of the user
\* message and with earlier messages in the request
C9_Witness ==
  /\ pc = "model"
  /\ HasContextText(turn.context)
  /\ Len(turn.request) >= 2
  /\ HasContextText(turn.request[Len(turn.request)].content)

RECURSIVE SumOfLengths(_, _)
SumOfLengths(keywords, hits) ==
  IF hits = {} THEN 0
  ELSE LET i == CHOOSE h \in hits : TRUE
       IN  Len(keywords[i]) + SumOfLengths(keywords, hits \ {i})

RuleScore(tool, input) ==
  LET hits == { i \in DOMAIN tool.keywords :
                  includes(toLowerCase(input), toLowerCase(tool.keywords[i])) }
  IN  SumOfLengths(tool.keywords, hits)
        + (IF Cardinality(hits) > 1 THEN 5 * Cardinality(hits) ELSE 0)

\* C11: findMatchingTool returns the registered tool with the highest
\* score, the first registered among tools of equal score, and null exactly
\* when every tool scores 0; a tool with keywords "git diff" and "diff"
\* scores 22 on "show me the git diff status" and one with "status" scores 6.
C11_SelectionRule ==
  (call.op = "findMatchingTool") =>
     LET score(i) == RuleScore(registeredTools[i], call.prompt)
     IN  /\ (call.ret = "") <=> (\A i \in DOMAIN registeredTools : score(i) = 0)
         /\ (call.ret # "") =>
               \E i \in DOMAIN registeredTools :
                  /\ registeredTools[i].name = call.ret
                  /\ \A j \in DOMAIN registeredTools : score(j) <= score(i)
                  /\ \A j \in 1..(i - 1) : score(j) < score(i)
         /\ \A i \in DOMAIN registeredTools :
               score(i) = toolScore(registeredTools[i], toLowerCase(call.prompt))

\* C11 witness: the example of the rule, and a tie that the first
\* registered tool wins
C11_Witness ==
  /\ call.op = "findMatchingTool"
  /\ call.prompt = <<"s","h","o","w"," ","m","e"," ","t","h","e"," ","g","i","t"," ","d","i","f","f"," ","s","t","a","t","u","s">>
  /\ \E a, b \in DOMAIN registeredTools :
        /\ registeredTools[a].keywords = << <<"g","i","t"," ","d","i","f","f">>, <<"d","i","f","f">> >>
        /\ registeredTools[b].keywords = << <<"S","t","a","t","u","s">> >>
        /\ RuleScore(registeredTools[a], call.prompt) = 22
        /\ RuleScore(registeredTools[b], call.prompt) = 6
        /\ call.ret = registeredTools[a].name
        /\ \E c \in DOMAIN registeredTools :
              /\ a < c
              /\ RuleScore(registeredTools[c], call.prompt) = 22


\* C12: executeToolFromPrompt never propagates a failure: with no matching
\* tool it returns a failure result, a handler that raises, whatever value
\* it throws, is answered with a failure result, and at most one handler is
\* invoked in a call.
C12_NeverPropagates ==
  (call.op = "executeToolFromPrompt") =>
     /\ call.result.settled = "returned"
     /\ Len(call.result.invoked) <= 1
     /\ (call.tool = "") =>
           /\ call.result.invoked = <<>>
           /\ ~call.result.value.success
     /\ (call.outcome.kind = "throws") => ~call.result.value.success


\* the tables of the durable store are as they were
TablesUnchanged == dbConversations' = dbConversations /\ dbMessages' = dbMessages

\* C13: setActiveConversation(id) returns true exactly when id exists; on
\* true id becomes the active conversation, on false the active
\* conversation stays; in both cases no conversation is created or changed.
C13_SetActive ==
  [][(call'.op = "setActiveConversation") =>
       /\ call'.ret <=> (call'.id \in DOMAIN conversations)
       /\ call'.ret => activeConversationId' = call'.id
       /\ ~call'.ret => activeConversationId' = activeConversationId
       /\ conversations' = conversations
       /\ TablesUnchanged]_vars

\* C13 witness: a switch to an existing conversation that was not the
\* active one
C13_Witness ==
  /\ call.op = "setActiveConversation"
  /\ call.ret
  /\ call.id = 1
  /\ activeConversationId = 1
  /\ 2 \in DOMAIN conversations

\* C14: addMessage targets the given id, or the active conversation when no
\* id is given; without a target that exists it returns null and changes
\* nothing; otherwise it appends one message to the target, adds one to its
\* messageCount and sets its lastUpdated, leaving the others alone.
C14_AddMessage ==
  [][(call'.op = "addMessage") =>
       LET targetId == IF call'.id # Null THEN call'.id ELSE activeConversationId
       IN  IF targetId = Null \/ targetId \notin DOMAIN conversations
           THEN /\ call'.ret = NullMessage
                /\ conversations' = conversations
                /\ activeConversationId' = activeConversationId
                /\ TablesUnchanged
           ELSE /\ call'.ret # NullMessage
                /\ call'.ret.role = call'.role
                /\ call'.ret.content = call'.content
                /\ DOMAIN conversations' = DOMAIN conversations
                /\ \A other \in DOMAIN conversations \ {targetId} :
                      conversations'[other] = conversations[other]
                /\ appendLog'[targetId] = Append(appendLog[targetId], call'.ret)
                /\ conversations'[targetId].messages =
                      LET pushed == conversations[targetId].messages \o <<call'.ret>>
                      IN  IF maxMessages > 0 THEN LastN(pushed, maxMessages) ELSE pushed
                /\ conversations'[targetId].metadata.messageCount =
                      conversations[targetId].metadata.messageCount + 1
                /\ conversations'[targetId].metadata.lastUpdated = now
                /\ activeConversationId' = activeConversationId]_vars

\* C14 witness: a message appended to a conversation named by id while
\* another conversation is the active one
C14_Witness ==
  /\ call.op = "addMessage"
  /\ call.id # Null
  /\ activeConversationId # Null
  /\ call.id # activeConversationId
  /\ call.ret # NullMessage
  /\ Last(conversations[call.id].messages) = call.ret


\* C15: getMessages returns a snapshot: whatever the caller does to the
\* returned value (adding, removing or replacing elements, changing the
\* role or content of a returned message), the store holds and returns what
\* it held before.
C15_Snapshot ==
  [][(call'.op = "mutateReturned") =>
       /\ conversations' = conversations
       /\ LET targetId == IF call'.id # Null THEN call'.id ELSE activeConversationId'
          IN  conversations'[targetId].messages = call.ret]_vars

\* C16: the store's deleteConversation(id) returns false and changes
\* nothing when id does not exist; otherwise it removes the conversation
\* and its messages, makes the active conversation none exactly when id was
\* active, leaves the other conversations alone and returns true; deleting
\* the same id again returns false.
C16_StoreDelete ==
  [][(call'.op = "deleteConversation") =>
       /\ (call.op = "deleteConversation" /\ call.id = call'.id /\ call.ret) => ~call'.ret
       /\ IF call'.id \notin DOMAIN conversations
          THEN
            /\ ~call'.ret
            /\ conversations' = conversations
            /\ activeConversationId' = activeConversationId
            /\ TablesUnchanged
          ELSE
            /\ call'.ret
            /\ DOMAIN conversations' = DOMAIN conversations \ {call'.id}
            /\ \A other \in DOMAIN conversations' :
                  conversations'[other] = conversations[other]
            /\ activeConversationId' =
                  IF activeConversationId = call'.id THEN Null ELSE activeConversationId
            /\ memoryInitialized =>
                  /\ DOMAIN dbConversations' = DOMAIN dbConversations \ {call'.id}
                  /\ \A other \in DOMAIN dbConversations' :
                        dbConversations'[other] = dbConversations[other]
                  /\ dbMessages' =
                        SelectSeq(dbMessages, LAMBDA row : row.conversation_id # call'.id)
            /\ ~memoryInitialized => TablesUnchanged]_vars

\* C16 witness: the active conversation of a durable store was deleted with
\* its rows while another conversation remains
C16_Witness ==
  /\ call.op = "deleteConversation"
  /\ call.ret
  /\ activeConversationId = Null
  /\ DOMAIN conversations # {}
  /\ memoryInitialized
  /\ dbMessages # <<>>
  /\ \A i \in DOMAIN dbMessages : dbMessages[i].conversation_id # call.id
  /\ appendLog = logOfTables(Memory)

\* C17: whatever metadata it is given, createConversation returns an id no
\* existing conversation has and leaves under it a conversation with no
\* messages, messageCount 0 and no summary, which is the active one; the
\* conversations that existed are unchanged.
C17_CreateConversation ==
  [][(call'.op = "createConversation") =>
       /\ call'.ret \notin DOMAIN conversations
       /\ DOMAIN conversations' = DOMAIN conversations \cup {call'.ret}
       /\ conversations'[call'.ret].messages = <<>>
       /\ conversations'[call'.ret].metadata.messageCount = 0
       /\ conversations'[call'.ret].summary = NoSummary
       /\ activeConversationId' = call'.ret
       /\ \A c \in DOMAIN conversations : conversations'[c] = conversations[c]]_vars

\* C18: within one addMessage the summarize trigger (live count after the push
\* greater than summarizeThreshold) is evaluated, and summarizeConversation
\* called, before the retention step: the call sees the pushed sequence with
\* the messages about to be evicted still in it; the call happens exactly when
\* the trigger holds, and it changes nothing in the store (the state after the
\* append is the pushed sequence with the retention step applied, the summary
\* and the other conversations as before).
C18_RetentionOrder ==
  [][ (call'.op = "addMessage" /\ call'.ret # NullMessage) =>
        LET targetId == IF call'.id # Null THEN call'.id ELSE activeConversationId
            pushed == Append(conversations[targetId].messages, call'.ret)
            kept == IF maxMessages > 0 /\ Len(pushed) > maxMessages
                    THEN SubSeq(pushed, Len(pushed) - maxMessages + 1, Len(pushed))
                    ELSE pushed
        IN  /\ summarizeLog' =
                 IF Len(pushed) > summarizeThreshold
                 THEN Append(summarizeLog, [conversationId |-> targetId, live |-> pushed])
                 ELSE summarizeLog
            /\ conversations'[targetId].messages = kept
            /\ conversations'[targetId].summary = conversations[targetId].summary
            /\ DOMAIN conversations' = DOMAIN conversations
            /\ activeConversationId' = activeConversationId
            /\ \A c \in DOMAIN conversations \ {targetId} :
                 conversations'[c] = conversations[c] ]_vars

\* an append crossed both thresholds: summarizeConversation saw a live
\* sequence longer than maxMessages, and the store now holds the evicted one
C18_Witness ==
  /\ call.op = "addMessage" /\ call.ret # NullMessage
  /\ maxMessages > 0
  /\ summarizeLog # <<>>
  /\ LET last == summarizeLog[Len(summarizeLog)]
     IN  /\ Len(last.live) > maxMessages
         /\ last.live[Len(last.live)] = call.ret
         /\ last.conversationId \in DOMAIN conversations
         /\ Len(conversations[last.conversationId].messages) = maxMessages

\* C19: a summary is changed by nothing but updateSummary and deletion. In
\* every addMessage step, evicting or not, the summary of every conversation
\* is what it was, in the store and in its table row; in every step, a
\* conversation that is there before and after with a different summary was
\* the target of an updateSummary call, and a row with a different summary
\* likewise.
C19_SummaryRetained ==
  [][ /\ call'.op = "addMessage" =>
           /\ DOMAIN conversations' = DOMAIN conversations
           /\ \A c \in DOMAIN conversations :
                conversations'[c].summary = conversations[c].summary
           /\ DOMAIN dbConversations' = DOMAIN dbConversations
           /\ \A c \in DOMAIN dbConversations :
                dbConversations'[c].summary = dbConversations[c].summary
      /\ \A c \in DOMAIN conversations \cap DOMAIN conversations' :
           conversations'[c].summary # conversations[c].summary =>
             call'.op = "updateSummary" /\ call'.id = c /\ call'.ret
                /\ conversations'[c].summary = call'.summary
      /\ \A c \in DOMAIN dbConversations \cap DOMAIN dbConversations' :
           dbConversations'[c].summary # dbConversations[c].summary =>
             call'.op = "updateSummary" /\ call'.id = c /\ call'.ret
                /\ dbConversations'[c].summary = call'.summary ]_vars

\* an append has just evicted messages of a conversation whose summary was
\* set before, and the summary is still there
C19_Witness ==
  /\ call.op = "addMessage" /\ call.ret # NullMessage
  /\ \E c \in DOMAIN conversations :
       /\ conversations[c].summary \in StoreSummaries
       /\ c \in DOMAIN dbConversations /\ dbConversations[c].summary \in StoreSummaries
       /\ maxMessages > 0
       /\ Len(conversations[c].messages) = maxMessages
       /\ conversations[c].metadata.messageCount > maxMessages
       /\ conversations[c].messages[maxMessages] = call.ret

\* C20: a crash inside a createConversation, addMessage, deleteConversation
\* or updateSummary call of the durable store leaves on disk either all of
\* the call's writes or none of them: the tables the next process finds are
\* the tables before the call or the tables after the whole call.
C20_CrashAtomic ==
  [][ (call'.op = "crash") =>
        LET done == durableCall(Memory, call'.during)
        IN  \/ /\ dbConversations' = dbConversations
               /\ dbMessages' = dbMessages
            \/ /\ dbConversations' = done.dbConversations
               /\ dbMessages' = done.dbMessages ]_vars

\* C21: when a write of the durable store fails inside createConversation,
\* addMessage, deleteConversation or updateSummary, the call returns (it does
\* not throw) what the in-memory store returns for it, keeps the change it
\* made in memory, and does not run the failed statement again nor any
\* statement after it: the tables hold the statements before the failed one.
C21_BestEffort ==
  [][ (call'.op = "writeFails") =>
        LET inMemory == durableCall([Memory EXCEPT !.initialized = FALSE], call'.during)
            left == tablesAtCrash(Memory, call'.during, call'.failedAt - 1)
        IN  /\ call'.settled = "returned"
            /\ call'.ret = inMemory.ret
            /\ conversations' = inMemory.conversations
            /\ activeConversationId' = inMemory.activeConversationId
            /\ Len(call'.attempted) = call'.failedAt
            /\ \A i, j \in DOMAIN call'.attempted :
                  i # j => call'.attempted[i] # call'.attempted[j]
            /\ dbConversations' = left.dbConversations
            /\ dbMessages' = left.dbMessages ]_vars

\* the INSERT of an addMessage failed: the message is returned and is the
\* last one in memory, and no row holds it
C21_Witness ==
  /\ call.op = "writeFails"
  /\ call.during.op = "addMessage"
  /\ call.failedAt = 1
  /\ call.ret # NullMessage
  /\ \E c \in DOMAIN conversations :
        /\ conversations[c].messages # <<>>
        /\ Last(conversations[c].messages) = call.ret
        /\ c \in DOMAIN dbConversations
  /\ \A i \in DOMAIN dbMessages : dbMessages[i].id # call.ret.id

\* C22: no public operation throws: every call of initialize,
\* createNewConversation, switchConversation, deleteConversation,
\* updateSystemPrompt and sendMessage, on a session that is initialized or
\* not, with or without an active conversation, returns.
C22_NeverThrows ==
  (call.op \in { "initialize", "createNewConversation", "switchConversation",
                 "deleteConversation", "updateSystemPrompt", "sendMessage" })
     => call.settled = "returned"

\* the blocks of a rendered context: one end-of-file line per file block, one
\* end-of-hook line per hook block
CountPieces(text, pieces) == Cardinality({ i \in DOMAIN text : text[i] \in pieces })

\* C23: getFullContext never fails the turn: whatever the files (readable
\* or not when the context is rendered) and whatever the hooks do (return
\* text, return nothing, raise any value), it returns a text with one block
\* for every context file and one block for every hook, holding the content
\* or an inline error marker.
C23_ContextNeverFails ==
  (call.op = "getFullContext") =>
     /\ call.result.settled = "returned"
     /\ CountPieces(call.result.value, { "\n=== END OF FILE ===\n", "=== END OF FILE ===\n" })
           = Len(contextFiles[AssemblerId])
     /\ CountPieces(call.result.value, { "\n=== END HOOK ===\n", "=== END HOOK ===\n" })
           = Len(contextHooks[AssemblerId])
     /\ CountPieces(call.result.value, { "[Error reading file: " })
           = Cardinality(call.unreadable)

\* the file set of the conversation before the step
FilesBefore == IF AssemblerId \in DOMAIN contextFiles THEN contextFiles[AssemblerId] ELSE <<>>

\* the absolute paths a path of a batch should put into the file set: the
\* file itself when it exists, is a regular file of at most 1 MiB with an
\* allowed or no extension and can be read; for a directory, the files
\* below it that pass, dotfiles and dist left out
ShouldAdd(filePath) ==
  CASE filePath \in { "a.js", "/w/a.js" } -> { "/w/a.js" }
    [] filePath = "/w/LICENSE" -> { "/w/LICENSE" }
    [] filePath = "/w/src" -> { "/w/src/m.js", "/w/src/lib/n.ts" }
    [] OTHER -> {}

\* C24: addFiles processes every path of the batch, also after paths that
\* fail validation: each path has its own entry, a failing one (missing, not
\* a regular file, larger than 1 MiB, unsupported extension) an error entry,
\* and adds nothing; the result is a success exactly when a path of the batch
\* was added; totalFiles is the size of the file set after the batch. A 2 MiB
\* file followed by a valid file: item failure, overall success.
C24_AddFilesBatch ==
  [][ (call'.op = "addFiles") =>
        LET paths == call'.paths
            ret == call'.ret
            after == contextFiles'[AssemblerId]
        IN  /\ Len(ret.results) = Len(paths)
            /\ \A i \in DOMAIN paths :
                  /\ ret.results[i].file = paths[i]
                  /\ ret.results[i].success <=> ShouldAdd(paths[i]) # {}
                  /\ (paths[i] \in { "/w/gone.js", "/w/big.js", "/w/app.exe", "/w/pipe.js" })
                        => ~ret.results[i].success /\ ret.results[i].error # ""
            /\ Range(after) = Range(FilesBefore) \cup UNION { ShouldAdd(paths[i]) : i \in DOMAIN paths }
            /\ SubSeq(after, 1, Len(FilesBefore)) = FilesBefore
            /\ ret.success <=> (\E i \in DOMAIN paths : ShouldAdd(paths[i]) # {})
            /\ ret.totalFiles = Cardinality(Range(after))
            /\ ret.totalFiles = Len(after)
            /\ (paths = <<"/w/big.js", "/w/a.js">>) =>
                  /\ ~ret.results[1].success
                  /\ ret.results[1].error = "File too large (max 1MB)"
                  /\ ret.results[2].success
                  /\ ret.success ]_vars

\* the batch of the 2 MiB file and a valid file has been added
C24_Witness ==
  /\ call.op = "addFiles"
  /\ call.paths = <<"/w/big.js", "/w/a.js">>
  /\ ~call.ret.results[1].success
  /\ call.ret.results[2].success
  /\ call.ret.success
  /\ "/w/a.js" \in Range(contextFiles[AssemblerId])
  /\ "/w/big.js" \notin Range(contextFiles[AssemblerId])

\* C25: removeFiles removes each requested path that is in the file set and
\* reports it as a success, reports each path that is not as 'not in
\* context' and changes nothing for it; the result is a success exactly when
\* every requested removal succeeded; the paths the batch does not name stay.
C25_RemoveFilesBatch ==
  [][ (call'.op = "removeFiles") =>
        LET paths == call'.paths
            ret == call'.ret
            after == contextFiles'[AssemblerId]
            requested == { resolve(paths[i]) : i \in DOMAIN paths }
            present(i) == /\ resolve(paths[i]) \in Range(FilesBefore)
                          /\ \A j \in 1..(i - 1) : resolve(paths[j]) # resolve(paths[i])
        IN  /\ Len(ret.results) = Len(paths)
            /\ \A i \in DOMAIN paths :
                  /\ ret.results[i].file = paths[i]
                  /\ ret.results[i].success <=> present(i)
                  /\ ~present(i) => ret.results[i].error = "File not in context"
            /\ after = SelectSeq(FilesBefore, LAMBDA f : f \notin requested)
            /\ ret.success <=> (\A i \in DOMAIN paths : present(i))
            /\ ret.totalFiles = Len(after) ]_vars

\* a batch of two paths, one in the file set and one that was never added,
\* has been removed: one success, one error, overall failure
C25_Witness ==
  /\ call.op = "removeFiles"
  /\ call.paths = <<"a.js", "/w/gone.js">>
  /\ call.ret.results[1].success
  /\ ~call.ret.results[2].success
  /\ call.ret.results[2].error = "File not in context"
  /\ ~call.ret.success
  /\ "/w/a.js" \notin Range(contextFiles[AssemblerId])
  /\ contextFiles[AssemblerId] # <<>>

\* the number of characters of a text, none for an absent one
Characters(text) == IF text = NoText THEN 0 ELSE Len(text)

\* C29: estimateTokenCount(text) is the number of characters times 0.25,
\* rounded up: ceil(n / 4) for n characters, 0 for the empty and for the
\* absent text, 1 for "aaaa"; the same text always gives the same number, and
\* a text that is not longer never gives a larger one.
C29_TokenEstimate ==
  (call.op = "estimateTokenCount") =>
     LET n == Characters(call.text)
     IN  /\ call.ret = (n + 3) \div 4
         /\ 4 * call.ret >= n /\ 4 * (call.ret - 1) < n
         /\ (n = 0) => call.ret = 0
         /\ (call.text = <<"a", "a", "a", "a">>) => call.ret = 1
         /\ call.ret = estimateTokenCount(call.text)
         /\ \A other \in Texts :
               Characters(other) <= n => estimateTokenCount(other) <= call.ret

\* the estimate of a text of five characters, which rounds up to 2
C29_Witness ==
  /\ call.op = "estimateTokenCount"
  /\ call.text = <<"a", "a", "a", "a", "a">>
  /\ call.ret = 2

\* the conversations the store can hold when ChatSession.initialize looks
\* at it: those in memory on first use, those read from the tables after a
\* restart
HeldAtInitialize ==
  IF restarts' = restarts + 1
  THEN loadedConversations(Memory)
  ELSE { conversations }

\* the rule of initialization, seeded saying when the new conversation gets
\* its system message
InitializationRule(seeded) ==
  ((~initialized /\ initialized') \/ restarts' = restarts + 1) =>
     /\ sessionActiveConversationId' \in DOMAIN conversations'
     /\ activeConversationId' = sessionActiveConversationId'
     /\ \E held \in HeldAtInitialize :
          IF DOMAIN held = {}
          THEN /\ DOMAIN conversations' = { sessionActiveConversationId' }
               /\ LET messages == conversations'[sessionActiveConversationId'].messages
                  IN  IF seeded
                      THEN /\ Len(messages) = 1
                           /\ messages[1].role = "system"
                           /\ messages[1].content = systemPrompt'
                      ELSE messages = <<>>
          ELSE /\ conversations' = held
               /\ \A other \in DOMAIN held :
                     held[other].metadata.lastUpdated
                       <= held[sessionActiveConversationId'].metadata.lastUpdated

SystemMessages(messages) == SelectSeq(messages, LAMBDA msg : msg.role = "system")

OtherMessages(messages) == SelectSeq(messages, LAMBDA msg : msg.role # "system")

IsSuffix(short, long) ==
  /\ Len(short) <= Len(long)
  /\ short = SubSeq(long, Len(long) - Len(short) + 1, Len(long))

\* the step is a call of updateSystemPrompt that returned
UpdateSystemPromptReturned ==
  /\ call'.op = "updateSystemPrompt"
  /\ call'.settled = "returned"
  /\ restarts' = restarts

\* C27: updateSystemPrompt(p) sets the session's system prompt to p; when
\* the active conversation's live sequence held a system message or inclusion
\* is enabled, the sequence is left with exactly one system message, newly
\* appended at its end with content p, and none of the earlier ones; when it
\* held none and inclusion is disabled the sequence is unchanged. The other
\* messages keep their content and relative order.
C27_SystemPromptReplaced ==
  [][UpdateSystemPromptReturned =>
       LET before == conversations[sessionActiveConversationId].messages
           after == conversations'[sessionActiveConversationId].messages
       IN  /\ systemPrompt' = call'.prompt
           /\ IF SystemMessages(before) # <<>> \/ includeSystemPrompt
              THEN /\ Len(SystemMessages(after)) = 1
                   /\ after[Len(after)].role = "system"
                   /\ after[Len(after)].content = call'.prompt
                   /\ \A i \in DOMAIN before : before[i].id # after[Len(after)].id
                   /\ IsSuffix(OtherMessages(after), OtherMessages(before))
                   /\ (maxMessages = 0 \/ Len(after) < maxMessages)
                        => OtherMessages(after) = OtherMessages(before)
              ELSE after = before]_vars

\* the roles of the messages a step appended to the conversation of the turn
RolesAppendedToTurn ==
  LET log == appendLog[turn.conv]
      after == appendLog'[turn.conv]
  IN  [i \in 1..(Len(after) - Len(log)) |-> after[Len(log) + i].role]

\* C28: turns of one session never overlap: while a sendMessage turn is in
\* flight (waiting for its tool handler or for the model) every step is that
\* turn's own: no other turn starts, no conversation is switched to, created
\* or deleted, no other conversation changes, and the only appends are the
\* turn's user message and assistant message; a turn that succeeds leaves its
\* user message directly followed by its assistant message.
C28_TurnsNeverOverlap ==
  [][pc # "idle" =>
       /\ turn'.input = turn.input /\ turn'.conv = turn.conv /\ turn'.before = turn.before
       /\ sessionActiveConversationId' = sessionActiveConversationId
       /\ activeConversationId' = activeConversationId
       /\ DOMAIN conversations' = DOMAIN conversations
       /\ \A c \in DOMAIN conversations \ { turn.conv } :
             conversations'[c] = conversations[c] /\ appendLog'[c] = appendLog[c]
       /\ turn.conv = sessionActiveConversationId
       /\ LET log == appendLog[turn.conv]
              after == appendLog'[turn.conv]
          IN  /\ Len(after) >= Len(log)
              /\ SubSeq(after, 1, Len(log)) = log
              /\ RolesAppendedToTurn =
                    CASE pc = "tool" /\ pc' = "idle" -> <<"user", "assistant">>
                      [] pc = "tool" /\ pc' = "model" -> <<"user">>
                      [] pc = "model" /\ pc' = "idle" /\ turn'.reply.success -> <<"assistant">>
                      [] OTHER -> <<>>
              /\ (pc' = "idle" /\ turn'.result.success) =>
                    /\ Len(after) = turn.before + 2
                    /\ after[turn.before + 1].role = "user"
                    /\ after[turn.before + 1].content = turn.input
                    /\ after[turn.before + 2] = turn'.result.message]_vars

\* a turn answered by the model has finished in a session that holds two
\* conversations, after the clock moved while the model was working
C28_Witness ==
  /\ pc = "idle" /\ turn.done /\ turn.modelCalled /\ turn.result.success
  /\ Cardinality(DOMAIN conversations) = 2
  /\ turn.result.message.timestamp > appendLog[turn.conv][turn.before + 1].timestamp

\* what a source gives for a key, converted to the key's type; Undefined when
\* the source does not set the key
GivenByEnv(key, envConfig) ==
  LET raw == envConfig[EnvName(key)]
  IN  IF raw = Undefined THEN Undefined
      ELSE CASE ConfigDefaults[key].t = "string" -> raw
             [] ConfigDefaults[key].t = "number" -> parseInt(raw)
             [] ConfigDefaults[key].t = "boolean" -> isTrueText(raw)

GivenByFile(key, file) ==
  IF file.exists THEN GivenByEnv(key, file.parsed) ELSE Undefined

GivenByOptions(key, cliOptions) ==
  LET raw == cliOptions[OptionName(key)]
  IN  IF raw = Undefined THEN Undefined
      ELSE IF key = "includeSystemPrompt" THEN not(raw) ELSE raw

\* the value of the highest-priority source that sets the key
HighestPriority(key, cliOptions, env, localEnv, globalEnv) ==
  CASE GivenByOptions(key, cliOptions) # Undefined -> GivenByOptions(key, cliOptions)
    [] OTHER ->
  CASE GivenByEnv(key, env) # Undefined -> GivenByEnv(key, env)
    [] OTHER ->
  CASE GivenByFile(key, localEnv) # Undefined -> GivenByFile(key, localEnv)
    [] OTHER ->
  CASE GivenByFile(key, globalEnv) # Undefined -> GivenByFile(key, globalEnv)
    [] OTHER -> ConfigDefaults[key]

\* C30: for every configuration key the value loadConfig produces is the one
\* given by the highest-priority source that sets the key, in the order
\* command line, environment, local .env, global config.env, defaults, for
\* every value the higher source can supply; keys no source sets keep their
\* defaults.
C30_ConfigPriority ==
  call.op = "loadConfig" =>
     \A key \in ConfigKeys :
        call.ret[key] =
           HighestPriority(key, call.cliOptions, call.env, call.localEnv, call.globalEnv)

\* C31: with the default registrations, findMatchingTool dispatches every
\* prompt the guide lists as a working test case to the tool the guide names,
\* and matches no tool for the prompt the guide leaves to the model.
C31_GuidePrompts ==
  (call.op = "findMatchingTool" /\ registeredTools = DefaultTools) =>
     \A c \in GuideCases : call.prompt = c.prompt => call.ret = c.tool

\* the conversations a step appended to
AppendedTo ==
  { c \in DOMAIN appendLog' : c \notin DOMAIN appendLog \/ appendLog'[c] # appendLog[c] }

\* the conversations that hold the user message of the turn in flight
HoldsUserMessage ==
  { c \in DOMAIN appendLog :
      \E i \in DOMAIN appendLog[c] : appendLog[c][i].id = Last(turn.request).id }

\* C32: in every sendMessage turn the assistant message is appended to the
\* conversation that received the turn's user message, and the context that
\* is injected is that conversation's, whatever switchConversation,
\* createNewConversation or deleteConversation did while the turn was
\* suspended on its tool handler, its context hooks or the model call.
C32_TurnStaysInConversation ==
  [][/\ (pc = "context" /\ pc' = "model") => AppendedTo \subseteq { turn.conv }
     /\ (pc = "model" /\ pc' = "idle" /\ turn'.reply.success)
           => AppendedTo \subseteq HoldsUserMessage
     /\ (pc = "tool" /\ pc' = "idle") => Cardinality(AppendedTo) = 1]_vars

\* C33: once the session is initialized, whatever sendMessage,
\* createNewConversation, switchConversation (successful or not),
\* deleteConversation and updateSystemPrompt calls follow, the session's
\* activeConversationId equals the store's active conversation id and names
\* a conversation the store holds.
C33_ActiveAgreement ==
  initialized =>
     /\ sessionActiveConversationId = activeConversationId
     /\ sessionActiveConversationId \in DOMAIN conversations

\* a second conversation was created, the session switched back to the first,
\* deleted the second, and then finished a turn in the first
C33_Witness ==
  /\ initialized /\ pc = "idle" /\ turn.done
  /\ 2 \in DOMAIN deletions /\ ~deletions[2].wasActive
  /\ sessionActiveConversationId = 1
  /\ turn.conv = 1

\* C34: the eviction bound holds across restarts of the durable backend:
\* right after initialize has reloaded a database written with
\* maxMessages > 0, every conversation has at most maxMessages live
\* messages, and a message that was evicted before the restart is not
\* live after it.
C34_BoundAcrossRestart ==
  [][(restarts' = restarts + 1 /\ maxMessages > 0) =>
       \A c \in DOMAIN conversations' :
          /\ Len(conversations'[c].messages) <= maxMessages
          /\ c \in DOMAIN conversations =>
                \A i \in DOMAIN conversations'[c].messages :
                   \E j \in DOMAIN conversations[c].messages :
                      conversations[c].messages[j].id = conversations'[c].messages[i].id]_vars

\* the place of a message among the rows of the messages table, which are
\* kept in the order they were inserted
RowOf(id) == CHOOSE k \in DOMAIN dbMessages : dbMessages[k].id = id

\* C35: reload preserves append order: after the durable backend is
\* initialized anew, each conversation's messages are in the order in which
\* they were appended, also when two or more of them carry the same
\* timestamp.
C35_ReloadOrder ==
  [][restarts' = restarts + 1 =>
       \A c \in DOMAIN conversations' \cap DOMAIN dbConversations :
          LET messages == conversations'[c].messages
          IN  \A i, j \in DOMAIN messages :
                 i < j => RowOf(messages[i].id) < RowOf(messages[j].id)]_vars

\* C36: for every summarizeThreshold and every maxMessages > 0, a message is
\* evicted only if summarizeConversation was invoked for its conversation at
\* some moment at which the message was in the live sequence: every message an
\* append drops from the live sequence occurs in a sequence the summarization
\* hook was called with for that conversation.
C36_SummarizedBeforeEvicted ==
  [][ (call'.op = "addMessage" /\ call'.ret # NullMessage /\ maxMessages > 0) =>
        LET targetId == IF call'.id # Null THEN call'.id ELSE activeConversationId
            pushed == Append(conversations[targetId].messages, call'.ret)
            kept == conversations'[targetId].messages
        IN  \A i \in DOMAIN pushed :
              (\A j \in DOMAIN kept : kept[j].id # pushed[i].id) =>
                 \E k \in DOMAIN summarizeLog' :
                    /\ summarizeLog'[k].conversationId = targetId
                    /\ \E j \in DOMAIN summarizeLog'[k].live :
                          summarizeLog'[k].live[j].id = pushed[i].id ]_vars

\* C37: the live length never exceeds the append counter: in every state
\* reached through the session (turns, system-prompt updates, eviction,
\* restart over the database), every conversation holds at most
\* metadata.messageCount live messages.
C37_LiveWithinCount ==
  \A c \in DOMAIN conversations :
     Len(conversations[c].messages) <= conversations[c].metadata.messageCount

\* a conversation that was reloaded after its system message was replaced and
\* appends went beyond maxMessages: it holds more live messages than
\* maxMessages, as many as were ever appended
C37_Witness ==
  /\ restarts > 0 /\ maxMessages > 0
  /\ \E c \in DOMAIN conversations :
        /\ c \in edited
        /\ Len(conversations[c].messages) > maxMessages
        /\ Len(conversations[c].messages) = conversations[c].metadata.messageCount
        /\ Len(conversations[c].messages) >= 3

\* C38: addMessage on conversation X changes only X: the set of conversations
\* and the active conversation id are as before, and every other conversation
\* keeps its messages, metadata and summary, whether X was given or resolved
\* from the active conversation and whether or not the append evicts; an
\* addMessage that resolves to no conversation changes no conversation at all.
C38_OnlyTargetChanges ==
  [][ call'.op = "addMessage" =>
        LET X == IF call'.id # Null THEN call'.id ELSE activeConversationId
        IN  /\ DOMAIN conversations' = DOMAIN conversations
            /\ activeConversationId' = activeConversationId
            /\ \A c \in DOMAIN conversations :
                  (c # X \/ call'.ret = NullMessage) =>
                     /\ conversations'[c].messages = conversations[c].messages
                     /\ conversations'[c].metadata = conversations[c].metadata
                     /\ conversations'[c].summary = conversations[c].summary ]_vars

\* an append to a conversation named explicitly, not the active one, has
\* evicted, while the active conversation holds messages of its own
C38_Witness ==
  /\ call.op = "addMessage" /\ call.ret # NullMessage
  /\ call.id # Null /\ activeConversationId # Null /\ call.id # activeConversationId
  /\ activeConversationId \in DOMAIN conversations
  /\ conversations[activeConversationId].messages # <<>>
  /\ maxMessages > 0
  /\ Len(conversations[call.id].messages) < conversations[call.id].metadata.messageCount
  /\ Last(conversations[call.id].messages) = call.ret

\* the hooks a conversation holds, none when its hook set was never made
HooksOf(hooks, id) == IF id \in DOMAIN hooks THEN hooks[id] ELSE <<>>

\* C39: hook names identify hooks: a removeHook(id, name) that returns true
\* leaves no hook named name in the hook set of that conversation, so that
\* getFullContext renders no block under that name, and removeHook returns
\* false exactly when no hook of that name was present.
C39_RemoveHookByName ==
  [][ call'.op = "removeHook" =>
        LET before == HooksOf(contextHooks, call'.id)
            after == HooksOf(contextHooks', call'.id)
        IN  /\ call'.ret = (\E i \in DOMAIN before : before[i].name = call'.name)
            /\ call'.ret =>
                  /\ \A i \in DOMAIN after : after[i].name # call'.name
                  /\ call'.name \notin
                        Range(executeHooks([files |-> contextFiles', hooks |-> contextHooks'],
                                           call'.id)) ]_vars


====
